---- MODULE Spec2Model ----
(***************************************************************************)
(* Verification model of greentic-gui: route resolution (tenant.rs,        *)
(* routing.rs) and route normalisation / matching (packs.rs, tenant.rs).   *)
(*                                                                         *)
(* Strings whose characters matter (request paths, route patterns) are     *)
(* sequences of one-character strings.  Filesystem paths (PathBuf) are     *)
(* sequences of path components, the root directory being the component    *)
(* "/" in first position.                                                  *)
(***************************************************************************)
EXTENDS Integers, Sequences, FiniteSets, TLC

(***************************************************************************)
(* Bounds of the model.                                                    *)
(***************************************************************************)
\* longest feature-pack list of a tenant configuration
MaxFeatures == 2
\* most routes the packs of a tenant declare in total
MaxRoutes == 3
\* longest raw string given to normalize_route / path_matches
MaxLen == 4
\* longest list of fragment bindings of a route
MaxBindings == 2
\* most calls of resolve and clear_cache in a behaviour
MaxCalls == 3
MaxRenders == 2
MaxTogether == 2
MaxPacks == 2
\* most calls other tasks make on the provider while a load runs
MaxBeside == 1
\* longest list of secret requirements given to dedup_requirements
MaxReqs == 3
\* largest retry count of the worker gateway configuration
MaxRetries == 2

(***************************************************************************)
(* String helpers (Rust str methods used by the source).                   *)
(***************************************************************************)
\* all sequences over S of length at most n
SeqsUpTo(S, n) == UNION {[1..k -> S] : k \in 0..n}

\* str::starts_with
StartsWith(s, p) == Len(p) <= Len(s) /\ SubSeq(s, 1, Len(p)) = p

\* str::ends_with
EndsWith(s, p) ==
    Len(p) <= Len(s) /\ SubSeq(s, Len(s) - Len(p) + 1, Len(s)) = p

\* str::trim_end_matches(c): strips every trailing occurrence of c
RECURSIVE TrimEndMatches(_, _)
TrimEndMatches(s, c) ==
    IF s # <<>> /\ s[Len(s)] = c
    THEN TrimEndMatches(SubSeq(s, 1, Len(s) - 1), c)
    ELSE s

\* the whitespace character of the model's alphabet
IsWhitespace(c) == c = " "

RECURSIVE TrimStart(_)
TrimStart(s) ==
    IF s # <<>> /\ IsWhitespace(s[1]) THEN TrimStart(Tail(s)) ELSE s

RECURSIVE TrimEnd(_)
TrimEnd(s) ==
    IF s # <<>> /\ IsWhitespace(s[Len(s)])
    THEN TrimEnd(SubSeq(s, 1, Len(s) - 1))
    ELSE s

\* str::trim: strips leading and trailing whitespace
Trim(s) == TrimEnd(TrimStart(s))

\* Regex "/+" replace_all with "/": every maximal run of slashes becomes one
RECURSIVE CollapseSlashes(_)
CollapseSlashes(s) ==
    IF s = <<>> THEN <<>>
    ELSE IF Len(s) >= 2 /\ s[1] = "/" /\ s[2] = "/"
         THEN CollapseSlashes(Tail(s))
         ELSE <<s[1]>> \o CollapseSlashes(Tail(s))

\* normalize_route without the collapse of repeated slashes
normalize_route_no_collapse(path) ==
    LET s == Trim(path) IN IF StartsWith(s, <<"/">>) THEN s ELSE <<"/">> \o s

\* packs.rs normalize_route
normalize_route(path) ==
    LET normalized == CollapseSlashes(path)
        s == Trim(normalized)
    IN  IF ~StartsWith(s, <<"/">>) THEN <<"/">> \o s ELSE s

\* tenant.rs path_matches
path_matches(path, pattern) ==
    IF EndsWith(pattern, <<"/", "*">>)
    THEN LET base == TrimEndMatches(pattern, "*")
         IN  StartsWith(path, TrimEndMatches(base, "/"))
    ELSE normalize_route(pattern) = path

(***************************************************************************)
(* Filesystem paths.                                                       *)
(***************************************************************************)
IsAbsolute(p) == p # <<>> /\ p[1] = "/"

\* PathBuf::join: an absolute argument replaces the base
PathJoin(base, rel) == IF IsAbsolute(rel) THEN rel ELSE base \o rel

\* tenant.rs: PackLocation built by TenantGuiConfig::load from a pack root
PackLocation(root) ==
    [root |-> root, assets |-> PathJoin(PathJoin(root, <<"gui">>), <<"assets">>)]

(***************************************************************************)
(* Option<T>: None is the empty sequence, Some(x) the one-element sequence. *)
(***************************************************************************)
NoneOpt == <<>>
Some(x) == <<x>>
IsSome(o) == o # <<>>
Unwrap(o) == o[1]

(***************************************************************************)
(* Manifests (packs.rs).  A raw JSON object is a record holding only the   *)
(* keys present in the file; the *FromJson operators apply serde's         *)
(* #[serde(default)] to the keys left out.                                 *)
(***************************************************************************)
\* packs.rs AuthRoute { path, #[serde(default)] public, html }
AuthRouteFromJson(raw) ==
    [path |-> raw.path,
     public |-> IF "public" \in DOMAIN raw THEN raw.public ELSE FALSE,
     html |-> raw.html]

\* packs.rs FeatureRoute { path, #[serde(default)] authenticated, html }
FeatureRouteFromJson(raw) ==
    [path |-> raw.path,
     authenticated |->
        IF "authenticated" \in DOMAIN raw THEN raw.authenticated ELSE FALSE,
     html |-> raw.html]

\* packs.rs FragmentBinding
FragmentBinding(id, selector, world, name) ==
    [id |-> id, selector |-> selector,
     component_world |-> world, component_name |-> name]

\* packs.rs FeatureManifest: routes, #[serde(default)] fragments
FeatureManifestFromJson(raw) ==
    [routes |-> [j \in DOMAIN raw.routes |-> FeatureRouteFromJson(raw.routes[j])],
     fragments |-> IF "fragments" \in DOMAIN raw THEN raw.fragments ELSE <<>>]

\* packs.rs AuthManifest
AuthManifestFromJson(raw) ==
    [routes |-> [j \in DOMAIN raw.routes |-> AuthRouteFromJson(raw.routes[j])]]

(***************************************************************************)
(* Tenant configurations the model ranges over.                            *)
(***************************************************************************)
\* pack directories and document names, by position
FeatureDirs == <<"feature-1", "feature-2", "feature-3", "feature-4">>
HtmlNames == <<"r1.html", "r2.html", "r3.html", "r4.html">>
\* number of fragment bindings the feature pack at each position declares
\* (0 stands for a manifest without a `fragments` key)
FragmentCounts == <<2, 1, 0, 2>>
SlotNames == <<"slot-1", "slot-2">>

\* (path, authenticated) of the feature routes: exact routes that need a
\* session (one of them on the login path), and a prefix route that leaves
\* `authenticated` out
FeatureRouteChoices ==
    { [path |-> <<"/", "a">>, authenticated |-> TRUE],
      [path |-> <<"/", "l">>, authenticated |-> TRUE],
      [path |-> <<"/", "a", "/", "*">>] }

\* (path, public) of the auth routes: a login page that leaves `public` out,
\* and a public page
AuthRouteChoices ==
    { [path |-> <<"/", "a">>],
      [path |-> <<"/", "l">>, public |-> TRUE] }

\* the raw route list of a manifest: the chosen routes, route j serving
\* document HtmlNames[j]
WithHtml(routes) ==
    [j \in DOMAIN routes |->
        [k \in DOMAIN routes[j] \cup {"html"} |->
            IF k = "html" THEN <<HtmlNames[j]>> ELSE routes[j][k]]]

\* the bindings the feature pack at position i declares
BindingsOf(i) ==
    [k \in 1..FragmentCounts[i] |->
        FragmentBinding(<<FeatureDirs[i], SlotNames[k]>>, <<"#", SlotNames[k]>>,
                        "greentic:gui/fragment", <<SlotNames[k], ".wasm">>)]

\* the raw manifest of the feature pack at position i with the given routes
FeatureManifestJson(i, routes) ==
    IF FragmentCounts[i] = 0
    THEN [routes |-> WithHtml(routes)]
    ELSE [routes |-> WithHtml(routes), fragments |-> BindingsOf(i)]

\* tenant.rs FeaturePack as TenantGuiConfig::load builds it from the pack at
\* position i of load_features
FeaturePack(i, manifestJson) ==
    [manifest |-> FeatureManifestFromJson(manifestJson),
     location |-> PackLocation(<<"/", FeatureDirs[i]>>)]

\* tenant.rs AuthPack as TenantGuiConfig::load builds it
AuthPack(manifestJson) ==
    [manifest |-> AuthManifestFromJson(manifestJson),
     location |-> PackLocation(<<"/", "auth">>)]

\* tenant.rs LayoutPack as TenantGuiConfig::load builds it
LayoutPack ==
    [manifest |-> [layout |-> [entrypoint_html |-> <<"index.html">>, spa |-> TRUE]],
     location |-> PackLocation(<<"/", "layout">>)]

\* tenant.rs TenantGuiConfig::load: exactly one layout, an optional auth
\* pack, the feature packs in the order the provider returns them
TenantGuiConfig_load(files) ==
    [tenant_did |-> "acme",
     layout |-> LayoutPack,
     auth |-> IF IsSome(files.auth) THEN Some(AuthPack(Unwrap(files.auth))) ELSE NoneOpt,
     features |-> [i \in DOMAIN files.features |-> FeaturePack(i, files.features[i])]]

\* sum of a sequence of numbers
RECURSIVE Sum(_)
Sum(ns) == IF ns = <<>> THEN 0 ELSE Head(ns) + Sum(Tail(ns))

\* the routes of `flat` dealt out to packs of the sizes `sizes`, in order
Deal(flat, sizes) ==
    [i \in DOMAIN sizes |->
        SubSeq(flat, Sum(SubSeq(sizes, 1, i - 1)) + 1, Sum(SubSeq(sizes, 1, i)))]

\* the route lists of at most MaxFeatures packs, MaxRoutes routes in all
FeatureRouteLists ==
    UNION { { Deal(flat, sizes) : flat \in [1..Sum(sizes) -> FeatureRouteChoices] } :
            sizes \in { sz \in SeqsUpTo(0..MaxRoutes, MaxFeatures) : Sum(sz) <= MaxRoutes } }

\* the feature manifests of a tenant, in provider order
FeatureFiles ==
    { [i \in DOMAIN rs |-> FeatureManifestJson(i, rs[i])] : rs \in FeatureRouteLists }

\* the auth manifest of a tenant, if it has an auth pack
AuthFiles ==
    {NoneOpt} \cup
    { Some([routes |-> WithHtml(rs)]) : rs \in SeqsUpTo(AuthRouteChoices, MaxRoutes) }

\* number of routes the manifests declare
RouteCount(a, fs) ==
    (IF IsSome(a) THEN Len(Unwrap(a).routes) ELSE 0)
    + Sum([i \in DOMAIN fs |-> Len(fs[i].routes)])

\* the manifests of a tenant: at most MaxRoutes routes over all its packs
PackFileSets ==
    { [auth |-> x[1], features |-> x[2]] :
        x \in { y \in AuthFiles \X FeatureFiles : RouteCount(y[1], y[2]) <= MaxRoutes } }

\* request paths as they arrive from the HTTP layer
RequestPaths ==
    { <<"/", "a">>, <<"/", "/", "a", "/", "b">>, <<"/", "a", "b">>,
      <<"l">>, <<"/", "x">> }

\* session tokens of a request (Option<String>)
Tokens == {NoneOpt, Some("tok")}

(***************************************************************************)
(* State.                                                                  *)
(***************************************************************************)
VARIABLES
    packFiles,  \* the manifests of the tenant's packs, as stored
    cfg,        \* the tenant's TenantGuiConfig, loaded from them
    reqPath,    \* path of the request handled (Option)
    resolved,   \* what TenantGuiConfig::resolve_route returned for it (Option)
    session,    \* the session SessionManager::validate returned for it (Option)
    io,         \* the calls to collaborators made while handling it, in order
    decision,   \* what routing::resolve_route returned for it (Option)
    strIn,      \* raw string given to normalize_route / request path matched
    patIn,      \* route pattern given to path_matches
    strOut,     \* result of the string operation applied (Option)
    fragIn,     \* page, fragment targets and renderer outcomes of an injection
    fragLog,    \* the calls inject_fragments made, in order
    fragOut,    \* what inject_fragments returned (Option)
    rendIn,     \* a renderer's configuration and its collaborators' answers
    rendLog,    \* the calls the renderer made, in order
    rendOut,    \* what the renderer returned (Option)
    rendBy,     \* which renderer was called
    provCache,  \* DistributorPackProvider.cache: the path stored under each key (Option)
    provCalls,  \* the calls of resolve in flight, by call number
    provLog,    \* the calls, remote resolutions, returns and clears so far, in order
    modCache,   \* WasmtimeFragmentInvoker.cache: the module stored under each path (Option)
    modCalls,   \* the calls of render in flight, by call number
    modLog,     \* the calls, file reads, compiles, inserts and ends of render so far, in order
    loadIn,     \* the provider and the packs a load operation finds
    loadCall,   \* where the load is, with the answers of the provider so far
    loadOut,    \* the load operation applied and what it returned (Option)
    dedupIn,    \* the secret requirements collected from the packs
    dedupOut,   \* what dedup_requirements returned, once for each application
    workIn,     \* the worker backend, its configuration and the request of a call
    workCall,   \* where the call is in the loop of HttpWorkerBackend::invoke
    workLog,    \* the requests sent and the backoff sleeps of the call, in order
    workOut,    \* what WorkerHost::invoke_worker returned (Option)
    modLock,    \* the RwLock of WasmtimeFragmentInvoker.cache: who holds a guard
    provLock    \* the Mutex of DistributorPackProvider.cache: the call that holds the guard (Option)

fragVars == <<fragIn, fragLog, fragOut>>
rendVars == <<rendIn, rendLog, rendOut, rendBy>>
provVars == <<provCache, provCalls, provLog>>
modVars == <<modCache, modCalls, modLog>>
loadVars == <<loadIn, loadCall, loadOut>>
dedupVars == <<dedupIn, dedupOut>>
workVars == <<workIn, workCall, workLog, workOut>>

vars == <<packFiles, cfg, reqPath, resolved, session, io, decision, strIn, patIn, strOut,
          fragVars, rendVars, provVars, modVars, loadVars, dedupVars, workVars, modLock, provLock>>

(***************************************************************************)
(* tenant.rs: TenantGuiConfig::resolve_route                               *)
(***************************************************************************)
\* tenant.rs ResolvedRoute
ResolvedRoute(source, html_path, authenticated, fragments) ==
    [source |-> source, html_path |-> html_path,
     authenticated |-> authenticated, fragments |-> fragments]

\* tenant.rs FragmentTarget
FragmentTarget(binding, assets_root) ==
    [binding |-> binding, assets_root |-> assets_root]

\* FeatureRouteResult with every fragment target rooted at the layout's assets
FeatureRouteResult_shared_root(c, i, j) ==
    LET feature == c.features[i]
        route == feature.manifest.routes[j]
        fragments ==
            [k \in DOMAIN feature.manifest.fragments |->
                FragmentTarget(feature.manifest.fragments[k], c.layout.location.assets)]
    IN  ResolvedRoute([kind |-> "Feature", pack |-> feature.location.root],
                      PathJoin(feature.location.assets, route.html),
                      route.authenticated, fragments)

\* the route returned on a feature match: route j of feature pack i
FeatureRouteResult(c, i, j) ==
    LET feature == c.features[i]
        route == feature.manifest.routes[j]
        fragments ==
            [k \in DOMAIN feature.manifest.fragments |->
                FragmentTarget(feature.manifest.fragments[k], feature.location.assets)]
    IN  ResolvedRoute([kind |-> "Feature", pack |-> feature.location.root],
                      PathJoin(feature.location.assets, route.html),
                      route.authenticated, fragments)

\* AuthRouteResult taking `authenticated` from `public` without negating it
AuthRouteResult_public(c, j) ==
    LET auth == Unwrap(c.auth)
        route == auth.manifest.routes[j]
    IN  ResolvedRoute([kind |-> "Auth", pack |-> auth.location.root],
                      PathJoin(auth.location.assets, route.html),
                      route.public, <<>>)

\* the route returned on an auth match: route j of the auth pack
AuthRouteResult(c, j) ==
    LET auth == Unwrap(c.auth)
        route == auth.manifest.routes[j]
    IN  ResolvedRoute([kind |-> "Auth", pack |-> auth.location.root],
                      PathJoin(auth.location.assets, route.html),
                      ~route.public, <<>>)

\* LayoutRouteResult joining the entrypoint to the pack root, not its assets
LayoutRouteResult_pack_root(c) ==
    ResolvedRoute([kind |-> "Layout", pack |-> c.layout.location.root],
                  PathJoin(c.layout.location.root,
                           c.layout.manifest.layout.entrypoint_html),
                  FALSE, <<>>)

\* the fallback to the layout entrypoint
LayoutRouteResult(c) ==
    ResolvedRoute([kind |-> "Layout", pack |-> c.layout.location.root],
                  PathJoin(c.layout.location.assets,
                           c.layout.manifest.layout.entrypoint_html),
                  FALSE, <<>>)

\* `for route in routes { if path_matches(..) { return .. } }` from route j on:
\* the index of the first matching route, 0 when the loop runs out
RECURSIVE FirstMatchingRoute(_, _, _)
FirstMatchingRoute(routes, path, j) ==
    IF j > Len(routes) THEN 0
    ELSE IF path_matches(path, routes[j].path) THEN j
    ELSE FirstMatchingRoute(routes, path, j + 1)

\* ResolveFeatures letting a later pack override an earlier match
RECURSIVE ResolveFeatures_last_pack(_, _, _)
ResolveFeatures_last_pack(c, path, i) ==
    IF i > Len(c.features) THEN NoneOpt
    ELSE LET j == FirstMatchingRoute(c.features[i].manifest.routes, path, 1)
             later == ResolveFeatures_last_pack(c, path, i + 1)
         IN  IF IsSome(later) THEN later
             ELSE IF j # 0 THEN Some(FeatureRouteResult(c, i, j))
             ELSE NoneOpt

\* `for feature in &self.features { for route in .. }` from feature i on
RECURSIVE ResolveFeatures(_, _, _)
ResolveFeatures(c, path, i) ==
    IF i > Len(c.features) THEN NoneOpt
    ELSE LET j == FirstMatchingRoute(c.features[i].manifest.routes, path, 1)
         IN  IF j # 0 THEN Some(FeatureRouteResult(c, i, j))
             ELSE ResolveFeatures(c, path, i + 1)

\* `if let Some(auth) = &self.auth { for route in .. }`
ResolveAuth(c, path) ==
    IF ~IsSome(c.auth) THEN NoneOpt
    ELSE LET j == FirstMatchingRoute(Unwrap(c.auth).manifest.routes, path, 1)
         IN  IF j # 0 THEN Some(AuthRouteResult(c, j)) ELSE NoneOpt

\* TenantGuiConfig::resolve_route looking at the auth routes first
TenantResolveRoute_auth_first(c, rawPath) ==
    LET path == normalize_route(rawPath)
        byFeature == ResolveFeatures(c, path, 1)
        byAuth == ResolveAuth(c, path)
    IN  IF IsSome(byAuth) THEN byAuth
        ELSE IF IsSome(byFeature) THEN byFeature
        ELSE Some(LayoutRouteResult(c))

\* TenantGuiConfig::resolve_route without the layout fallback
TenantResolveRoute_no_fallback(c, rawPath) ==
    LET path == normalize_route(rawPath)
        byFeature == ResolveFeatures(c, path, 1)
        byAuth == ResolveAuth(c, path)
    IN  IF IsSome(byFeature) THEN byFeature
        ELSE IF IsSome(byAuth) THEN byAuth
        ELSE NoneOpt

\* TenantGuiConfig::resolve_route(&self, path) -> Option<ResolvedRoute>
TenantResolveRoute(c, rawPath) ==
    LET path == normalize_route(rawPath)
        byFeature == ResolveFeatures(c, path, 1)
        byAuth == ResolveAuth(c, path)
    IN  IF IsSome(byFeature) THEN byFeature
        ELSE IF IsSome(byAuth) THEN byAuth
        ELSE Some(LayoutRouteResult(c))

(***************************************************************************)
(* integration.rs: SessionManager::validate                                *)
(***************************************************************************)
\* what the session store answers to get_session
StoreAnswers == {"error", "absent", "found"}

\* RealSessionManager::validate: Result<Option<SessionInfo>, SessionError>
Validate(token, store) ==
    IF ~IsSome(token) THEN [ok |-> TRUE, value |-> NoneOpt]
    ELSE IF store = "error" THEN [ok |-> FALSE, value |-> NoneOpt]
    ELSE IF store = "found"
         THEN [ok |-> TRUE, value |-> Some([session_id |-> Unwrap(token)])]
         ELSE [ok |-> TRUE, value |-> NoneOpt]

(***************************************************************************)
(* routing.rs                                                              *)
(***************************************************************************)
\* contents of a document of the pack assets
FileContents(html_path) == [contents_of |-> html_path]

\* routing.rs RouteDecision, and the Err of the anyhow::Result around it
Serve(html, fragments, sess) ==
    [kind |-> "Serve", html |-> Some(html), fragments |-> fragments,
     session |-> sess, target |-> <<>>]
Redirect(target) ==
    [kind |-> "Redirect", html |-> NoneOpt, fragments |-> <<>>,
     session |-> NoneOpt, target |-> target]
NotFound ==
    [kind |-> "NotFound", html |-> NoneOpt, fragments |-> <<>>,
     session |-> NoneOpt, target |-> <<>>]
Err(what) ==
    [kind |-> "Err", html |-> NoneOpt, fragments |-> <<>>,
     session |-> NoneOpt, target |-> <<what>>]

\* login_path taking the last auth route
login_path_last(auth) ==
    IF IsSome(auth) /\ Unwrap(auth).manifest.routes # <<>>
    THEN Unwrap(auth).manifest.routes[Len(Unwrap(auth).manifest.routes)].path
    ELSE <<"/", "l", "o", "g", "i", "n">>

\* routing.rs login_path
login_path(auth) ==
    IF IsSome(auth) /\ Unwrap(auth).manifest.routes # <<>>
    THEN Unwrap(auth).manifest.routes[1].path
    ELSE <<"/", "l", "o", "g", "i", "n">>

\* routing.rs load_html: the document's contents, or the read error
load_html(r, readable) ==
    IF readable THEN [ok |-> TRUE, value |-> FileContents(r.html_path)]
    ELSE [ok |-> FALSE, value |-> FileContents(<<>>)]

\* a call to a collaborator: SessionManager::validate or fs::read_to_string
ValidateCall(ok) == [call |-> "validate", path |-> <<>>, ok |-> ok]
ReadCall(path, ok) == [call |-> "read_to_string", path |-> path, ok |-> ok]

\* the values one run of routing::resolve_route leaves behind
Outcome(res, sess, calls, dec) ==
    [resolved |-> res, session |-> sess, io |-> calls, decision |-> dec]

\* routing::resolve_route serving an authenticated route without a session
resolve_route_no_gate(c, path, token, store, readable) ==
    LET res == TenantResolveRoute(c, path) IN
    IF ~IsSome(res) THEN Outcome(res, NoneOpt, <<>>, NotFound)
    ELSE
    LET r == Unwrap(res)
        validated == Validate(token, store)
        sess == validated.value
    IN  IF ~validated.ok
        THEN Outcome(res, NoneOpt, <<ValidateCall(FALSE)>>, Err("session"))
        ELSE LET html == load_html(r, readable)
                 calls == <<ValidateCall(TRUE), ReadCall(r.html_path, html.ok)>>
             IN  IF ~html.ok
                 THEN Outcome(res, sess, calls, Err("read"))
                 ELSE Outcome(res, sess, calls, Serve(html.value, r.fragments, sess))

\* routing::resolve_route consulting the route's requirement first and
\* validating the session only for a route that requires one
resolve_route_requirement_first(c, path, token, store, readable) ==
    LET res == TenantResolveRoute(c, path) IN
    IF ~IsSome(res) THEN Outcome(res, NoneOpt, <<>>, NotFound)
    ELSE
    LET r == Unwrap(res)
        requires_auth == r.authenticated
        validated == IF requires_auth THEN Validate(token, store)
                     ELSE [ok |-> TRUE, value |-> NoneOpt]
        sess == validated.value
        checked == IF requires_auth THEN <<ValidateCall(validated.ok)>> ELSE <<>>
    IN  IF ~validated.ok
        THEN Outcome(res, NoneOpt, checked, Err("session"))
        ELSE IF requires_auth /\ ~IsSome(sess)
        THEN Outcome(res, sess, checked, Redirect(login_path(c.auth)))
        ELSE LET html == load_html(r, readable)
                 calls == checked \o <<ReadCall(r.html_path, html.ok)>>
             IN  IF ~html.ok
                 THEN Outcome(res, sess, calls, Err("read"))
                 ELSE Outcome(res, sess, calls, Serve(html.value, r.fragments, sess))

\* routing.rs resolve_route(tenant_cfg, path, session_token, session_manager);
\* `store` is the session store's answer and `readable` whether the resolved
\* document can be read
resolve_route(c, path, token, store, readable) ==
    LET res == TenantResolveRoute(c, path) IN
    IF ~IsSome(res) THEN Outcome(res, NoneOpt, <<>>, NotFound)
    ELSE
    LET r == Unwrap(res)
        requires_auth == r.authenticated
        validated == Validate(token, store)
        sess == validated.value
    IN  IF ~validated.ok
        THEN Outcome(res, NoneOpt, <<ValidateCall(FALSE)>>, Err("session"))
        ELSE IF requires_auth /\ ~IsSome(sess)
        THEN Outcome(res, sess, <<ValidateCall(TRUE)>>, Redirect(login_path(c.auth)))
        ELSE LET html == load_html(r, readable)
                 calls == <<ValidateCall(TRUE), ReadCall(r.html_path, html.ok)>>
             IN  IF ~html.ok
                 THEN Outcome(res, sess, calls, Err("read"))
                 ELSE Outcome(res, sess, calls, Serve(html.value, r.fragments, sess))

(***************************************************************************)
(* HTML text and documents (kuchiki / html5ever, as fragments.rs uses      *)
(* them).  HTML text is the sequence of its tags and text runs; a parsed   *)
(* document is kept as the text its serialization gives.                   *)
(***************************************************************************)
\* a start tag with its id, class and data-fragment-id attributes
OpenTag(tag, id, class, data) ==
    [t |-> "open", tag |-> tag, id |-> id, class |-> class, data |-> data]

\* an end tag
CloseTag(tag) ==
    [t |-> "close", tag |-> tag, id |-> "", class |-> "", data |-> ""]

\* a run of text
Text(s) ==
    [t |-> "text", tag |-> s, id |-> "", class |-> "", data |-> ""]

\* the elements every parsed document has: html, head and body
SkeletonTags == {"html", "head", "body"}

\* the elements whose end tag closes the nearest open one, whatever is open
\* inside it (html5ever's "special" elements among the ones used here)
SpecialTags == {"div"}

\* the tree builder on body content: `stack` holds the open elements,
\* innermost last.  A start tag opens an element; an end tag of a special
\* element closes the nearest open one and everything inside it, and is
\* dropped when none is open; any other end tag closes the innermost element
\* when that is the one it names, and is dropped otherwise; what is open at
\* the end of the text is closed.
RECURSIVE CloseAll(_)
CloseAll(stack) ==
    IF stack = <<>> THEN <<>>
    ELSE <<CloseTag(stack[Len(stack)])>> \o CloseAll(SubSeq(stack, 1, Len(stack) - 1))

RECURSIVE PopTo(_, _)
PopTo(stack, tag) ==
    IF stack[Len(stack)] = tag THEN SubSeq(stack, 1, Len(stack) - 1)
    ELSE PopTo(SubSeq(stack, 1, Len(stack) - 1), tag)

RECURSIVE BuildTree(_, _)
BuildTree(tokens, stack) ==
    IF tokens = <<>> THEN CloseAll(stack)
    ELSE LET tok == Head(tokens)
             rest == Tail(tokens)
             open == \E k \in DOMAIN stack : stack[k] = tok.tag
         IN  CASE tok.t = "open" -> <<tok>> \o BuildTree(rest, Append(stack, tok.tag))
               [] tok.t = "text" -> <<tok>> \o BuildTree(rest, stack)
               [] tok.t = "close" /\ tok.tag \in SpecialTags /\ open ->
                      LET after == PopTo(stack, tok.tag)
                      IN  CloseAll(SubSeq(stack, Len(after) + 1, Len(stack)))
                              \o BuildTree(rest, after)
               [] tok.t = "close" /\ tok.tag \notin SpecialTags
                      /\ stack # <<>> /\ stack[Len(stack)] = tok.tag ->
                      <<tok>> \o BuildTree(rest, SubSeq(stack, 1, Len(stack) - 1))
               [] OTHER -> BuildTree(rest, stack)

\* the tags of the html, head and body elements of a text are not body content
RECURSIVE BodyContent(_)
BodyContent(tokens) ==
    IF tokens = <<>> THEN <<>>
    ELSE IF Head(tokens).t # "text" /\ Head(tokens).tag \in SkeletonTags
         THEN BodyContent(Tail(tokens))
         ELSE <<Head(tokens)>> \o BodyContent(Tail(tokens))

\* kuchiki::parse_html().one(html): the document of an HTML text always has
\* the html, head and body elements, and its elements are balanced
parse_html(html) ==
    <<OpenTag("html", "", "", ""), OpenTag("head", "", "", ""), CloseTag("head"),
      OpenTag("body", "", "", "")>>
        \o BuildTree(BodyContent(html), <<>>)
        \o <<CloseTag("body"), CloseTag("html")>>

\* document.to_string(): the serialization of a parsed document
to_string(document) == document

\* the end tag of the element whose start tag is at position i
RECURSIVE MatchingClose(_, _, _)
MatchingClose(document, i, depth) ==
    LET d == CASE document[i].t = "open" -> depth + 1
               [] document[i].t = "close" -> depth - 1
               [] OTHER -> depth
    IN  IF d = 0 THEN i ELSE MatchingClose(document, i + 1, d)

\* a CSS selector as fragments.rs receives it: "#id" is <<"#", id>>, a type
\* selector is <<tag>>; anything else here does not parse as a selector
SelectorParses(selector) ==
    \/ Len(selector) = 2 /\ selector[1] = "#"
    \/ Len(selector) = 1 /\ selector[1] # "#"

\* document.select(selector): the positions of the matching elements, in
\* document order
select(document, selector) ==
    { i \in DOMAIN document :
        /\ document[i].t = "open"
        /\ IF Len(selector) = 2 THEN document[i].id = selector[2]
                                ELSE document[i].tag = selector[1] }

Min(S) == CHOOSE x \in S : \A y \in S : x <= y

\* the child nodes of the element whose start tag is at position i
Children(document, i) ==
    SubSeq(document, i + 1, MatchingClose(document, i, 0) - 1)

(***************************************************************************)
(* fragments.rs: replace_selector_inner_html and inject_fragments          *)
(***************************************************************************)
\* Result values of the fragment code
Ok(v) == [ok |-> TRUE, value |-> v, err |-> ""]
Fail(e) == [ok |-> FALSE, value |-> <<>>, err |-> e]

\* FragmentError variants
FragmentErrors == {"Renderer", "Html", "MissingSecrets"}

\* the element fragment markup is parsed in
WrapperId == "__greentic_fragment_wrapper"

\* the nodes of new_html: the children of the wrapper element in the document
\* parsed from the wrapped markup
FragmentNodes(new_html) ==
    LET fragment_doc == parse_html(<<OpenTag("div", WrapperId, "", "")>>
                                       \o new_html \o <<CloseTag("div")>>)
        wrapper == Min(select(fragment_doc, <<"#", WrapperId>>))
    IN  Children(fragment_doc, wrapper)

\* replace_selector_inner_html that puts the markup at the end of the body
\* when the selector matches nothing
replace_selector_inner_html_or_body(document, selector, new_html) ==
    IF ~SelectorParses(selector) THEN [Fail("Html") EXCEPT !.value = document]
    ELSE LET nodes == select(document, selector)
         IN  IF nodes = {}
             THEN Ok(SubSeq(document, 1, Len(document) - 2) \o FragmentNodes(new_html)
                         \o SubSeq(document, Len(document) - 1, Len(document)))
             ELSE LET node == Min(nodes)
                      close == MatchingClose(document, node, 0)
                  IN  Ok(SubSeq(document, 1, node) \o FragmentNodes(new_html)
                             \o SubSeq(document, close, Len(document)))

\* replace_selector_inner_html that keeps the children the element had
replace_selector_inner_html_append(document, selector, new_html) ==
    IF ~SelectorParses(selector) THEN [Fail("Html") EXCEPT !.value = document]
    ELSE LET nodes == select(document, selector)
         IN  IF nodes = {} THEN Ok(document)
             ELSE LET close == MatchingClose(document, Min(nodes), 0)
                  IN  Ok(SubSeq(document, 1, close - 1) \o FragmentNodes(new_html)
                             \o SubSeq(document, close, Len(document)))

\* replace_selector_inner_html(document, selector, new_html): the children of
\* the first element the selector matches are replaced by the nodes of
\* new_html; a selector that does not parse is an Html error
replace_selector_inner_html(document, selector, new_html) ==
    IF ~SelectorParses(selector) THEN [Fail("Html") EXCEPT !.value = document]
    ELSE LET nodes == select(document, selector)
         IN  IF nodes = {} THEN Ok(document)
             ELSE LET node == Min(nodes)
                      close == MatchingClose(document, node, 0)
                  IN  Ok(SubSeq(document, 1, node) \o FragmentNodes(new_html)
                             \o SubSeq(document, close, Len(document)))

\* the markup injected for a binding whose renderer failed
ErrorPlaceholder(id, text) ==
    <<OpenTag("div", "", "fragment-error", id), Text(text), CloseTag("div")>>

\* RenderedFor that injects the failure placeholder for Ok(None)
RenderedFor_none_placeholder(target, outcome) ==
    CASE outcome.ok /\ IsSome(outcome.value) ->
             <<[binding |-> target.binding, html |-> Unwrap(outcome.value)]>>
      [] outcome.err = "MissingSecrets" ->
             <<[binding |-> target.binding,
                html |-> ErrorPlaceholder(target.binding.id, "missing secrets for fragment")]>>
      [] OTHER ->
             <<[binding |-> target.binding,
                html |-> ErrorPlaceholder(target.binding.id, "fragment render failed")]>>

\* RenderedFor that injects nothing for a generic renderer error
RenderedFor_drop_failed(target, outcome) ==
    CASE outcome.ok /\ IsSome(outcome.value) ->
             <<[binding |-> target.binding, html |-> Unwrap(outcome.value)]>>
      [] outcome.ok -> <<>>
      [] outcome.err = "MissingSecrets" ->
             <<[binding |-> target.binding,
                html |-> ErrorPlaceholder(target.binding.id, "missing secrets for fragment")]>>
      [] OTHER -> <<>>

\* what the renderer gave for one binding, as inject_fragments keeps it:
\* markup, the placeholder of an error, or nothing for Ok(None)
RenderedFor(target, outcome) ==
    CASE outcome.ok /\ IsSome(outcome.value) ->
             <<[binding |-> target.binding, html |-> Unwrap(outcome.value)]>>
      [] outcome.ok -> <<>>
      [] outcome.err = "MissingSecrets" ->
             <<[binding |-> target.binding,
                html |-> ErrorPlaceholder(target.binding.id, "missing secrets for fragment")]>>
      [] OTHER ->
             <<[binding |-> target.binding,
                html |-> ErrorPlaceholder(target.binding.id, "fragment render failed")]>>

\* RenderAll that stops at the first binding with missing secrets
RECURSIVE RenderAll_stop_at_missing(_, _)
RenderAll_stop_at_missing(targets, outcomes) ==
    IF targets = <<>> THEN <<>>
    ELSE IF ~Head(outcomes).ok /\ Head(outcomes).err = "MissingSecrets"
         THEN RenderedFor(Head(targets), Head(outcomes))
         ELSE RenderedFor(Head(targets), Head(outcomes))
                  \o RenderAll_stop_at_missing(Tail(targets), Tail(outcomes))

\* the first loop of inject_fragments: every binding rendered, in order
RECURSIVE RenderAll(_, _)
RenderAll(targets, outcomes) ==
    IF targets = <<>> THEN <<>>
    ELSE RenderedFor(Head(targets), Head(outcomes))
             \o RenderAll(Tail(targets), Tail(outcomes))

\* InjectAll that injects the rendered markups from the last to the first
RECURSIVE InjectAll_last_first(_, _)
InjectAll_last_first(document, rendered) ==
    IF rendered = <<>> THEN document
    ELSE InjectAll_last_first(
             replace_selector_inner_html(document, rendered[Len(rendered)].binding.selector,
                                         rendered[Len(rendered)].html).value,
             SubSeq(rendered, 1, Len(rendered) - 1))

\* the second loop of inject_fragments: each rendered markup injected, in
\* order; a failed injection is logged and the document left as it was
RECURSIVE InjectAll(_, _)
InjectAll(document, rendered) ==
    IF rendered = <<>> THEN document
    ELSE InjectAll(replace_selector_inner_html(document, Head(rendered).binding.selector,
                                               Head(rendered).html).value,
                   Tail(rendered))

\* the calls inject_fragments makes, in order
RenderCall(id) == [call |-> "render_fragment", binding |-> id, html |-> <<>>]
ParseCall == [call |-> "parse_html", binding |-> "", html |-> <<>>]
InjectCall(id, html) == [call |-> "replace_selector_inner_html", binding |-> id, html |-> html]

\* inject_fragments without the return for an empty binding list
inject_fragments_always_parse(html, targets, outcomes) ==
    LET rendered == RenderAll(targets, outcomes)
        document == InjectAll(parse_html(html), rendered)
    IN  [result |-> Ok(to_string(document)),
         calls |-> [k \in DOMAIN targets |-> RenderCall(targets[k].binding.id)]
                     \o <<ParseCall>>
                     \o [k \in DOMAIN rendered |->
                           InjectCall(rendered[k].binding.id, rendered[k].html)]]

\* inject_fragments(html, bindings, .., renderer): outcomes[k] is what the
\* renderer returns for the k-th binding
inject_fragments(html, targets, outcomes) ==
    IF targets = <<>> THEN [result |-> Ok(html), calls |-> <<>>]
    ELSE LET rendered == RenderAll(targets, outcomes)
             document == InjectAll(parse_html(html), rendered)
         IN  [result |-> Ok(to_string(document)),
              calls |-> [k \in DOMAIN targets |-> RenderCall(targets[k].binding.id)]
                          \o <<ParseCall>>
                          \o [k \in DOMAIN rendered |->
                                InjectCall(rendered[k].binding.id, rendered[k].html)]]

(***************************************************************************)
(* Pages, bindings and renderer outcomes given to inject_fragments.        *)
(***************************************************************************)
\* the page of the test injects_fragment_html
TestPage ==
    <<OpenTag("html", "", "", ""), OpenTag("body", "", "", ""),
      OpenTag("div", "target", "", ""), Text("old"), CloseTag("div"),
      CloseTag("body"), CloseTag("html")>>

\* the markup of the test injects_fragment_html
TestMarkup == <<OpenTag("span", "", "injected", ""), Text("ok"), CloseTag("span")>>

\* pages: the test's page; a page as the serializer writes it, with a slot
\* nested in another and a second top-level div; a page without html, head
\* and body tags whose last element is not closed
Pages ==
    { TestPage,
      <<OpenTag("html", "", "", ""), OpenTag("head", "", "", ""), CloseTag("head"),
        OpenTag("body", "", "", ""),
        OpenTag("div", "target", "", ""), OpenTag("div", "inner", "", ""), Text("old"),
        CloseTag("div"), CloseTag("div"),
        OpenTag("div", "side", "", ""), Text("keep"), CloseTag("div"),
        CloseTag("body"), CloseTag("html")>>,
      <<OpenTag("span", "", "", ""), Text("top"), CloseTag("span"),
        OpenTag("div", "target", "", ""), Text("old")>> }

\* selectors of bindings: by id, by element type, one that matches nothing
\* and one that is not a selector
Selectors == { <<"#", "target">>, <<"#", "side">>, <<"div">>, <<"#", "nowhere">>, <<"#">> }

\* markup renderers return: the test's markup; two roots, the second not
\* closed; markup with an id a binding selects and a stray end tag
Markups ==
    { TestMarkup,
      <<Text("a"), OpenTag("span", "", "", ""), Text("b")>>,
      <<OpenTag("div", "inner", "", ""), Text("new"), CloseTag("div"),
        CloseTag("div"), Text("lost")>> }

\* what a FragmentRenderer returns for a binding
RenderOutcomes ==
    { Ok(Some(m)) : m \in Markups } \cup { Ok(NoneOpt) }
        \cup { Fail(e) : e \in FragmentErrors }

BindingIds == <<"b1", "b2", "b3", "b4">>

\* the fragment targets of a route with the given selectors
TargetsOf(selectors) ==
    [k \in DOMAIN selectors |->
        FragmentTarget(FragmentBinding(BindingIds[k], selectors[k], "greentic:gui/fragment", BindingIds[k]),
                       <<"/", "feature", "gui", "assets">>)]

(***************************************************************************)
(* fragments.rs: the fragment renderers                                    *)
(***************************************************************************)
\* s.contains(sub)
Contains(s, sub) ==
    \E i \in 1..(Len(s) + 1) :
        /\ i + Len(sub) - 1 <= Len(s)
        /\ SubSeq(s, i, i + Len(sub) - 1) = sub

\* the text "missing_secrets" an invoker's error is searched for; error
\* strings are sequences of the pieces in ErrorAlphabet
MissingSecretsMarker == <<"missing", "_", "secrets">>

\* the calls a renderer makes
InvokerCall == "invoker.render"
FileReadCall == "read_to_string"

\* FileFragmentRenderer that returns a renderer error when the file cannot
\* be read
FileFragmentRenderer_render_read_error(file) ==
    [result |-> IF IsSome(file) THEN Ok(Some(Unwrap(file))) ELSE Fail("Renderer"),
     calls |-> <<FileReadCall>>]

\* FileFragmentRenderer::render_fragment: the content of
\* <assets_root>/fragments/<id>.html, or Ok(None) when it cannot be read;
\* `file` is the content of that file, if it can be read
FileFragmentRenderer_render(file) ==
    [result |-> IF IsSome(file) THEN Ok(Some(Unwrap(file))) ELSE Ok(NoneOpt),
     calls |-> <<FileReadCall>>]

\* WitFragmentRenderer that turns every failure of the invoker into a
\* missing-secrets error
WitFragmentRenderer_render_all_missing(invoked) ==
    [result |-> IF invoked.ok THEN Ok(Some(invoked.value)) ELSE Fail("MissingSecrets"),
     calls |-> <<InvokerCall>>]

\* WitFragmentRenderer::render_fragment: `invoked` is what invoker.render
\* returned, Ok(html) or Err(string)
WitFragmentRenderer_render(invoked) ==
    [result |-> IF invoked.ok THEN Ok(Some(invoked.value))
                ELSE IF Contains(invoked.err, MissingSecretsMarker)
                     THEN Fail("MissingSecrets")
                     ELSE Ok(NoneOpt),
     calls |-> <<InvokerCall>>]

\* CompositeFragmentRenderer that reads the file whatever the module gave
CompositeFragmentRenderer_render_always_file(wit, invoked, file) ==
    LET w == WitFragmentRenderer_render(invoked)
        f == FileFragmentRenderer_render(file)
    IN  IF wit /\ ~w.result.ok THEN [result |-> w.result, calls |-> w.calls \o f.calls]
        ELSE IF wit /\ IsSome(w.result.value)
             THEN [result |-> w.result, calls |-> w.calls \o f.calls]
             ELSE [result |-> f.result, calls |-> (IF wit THEN w.calls ELSE <<>>) \o f.calls]

\* CompositeFragmentRenderer::render_fragment: `wit` tells whether the
\* renderer was built with_wit (TRUE) or file_only (FALSE)
CompositeFragmentRenderer_render(wit, invoked, file) ==
    LET w == WitFragmentRenderer_render(invoked)
        f == FileFragmentRenderer_render(file)
    IN  IF wit /\ ~w.result.ok THEN w
        ELSE IF wit /\ IsSome(w.result.value) THEN w
        ELSE [result |-> f.result, calls |-> (IF wit THEN w.calls ELSE <<>>) \o f.calls]

\* pieces of the error strings of an invoker
ErrorAlphabet == {"missing", "_", "secrets", "x"}

\* what invoker.render returns: markup or an error string
InvokerResults ==
    { [ok |-> TRUE, value |-> m, err |-> <<>>] : m \in Markups }
        \cup { [ok |-> FALSE, value |-> <<>>, err |-> e] : e \in SeqsUpTo(ErrorAlphabet, MaxLen) }

\* the fragment file of the binding, when it can be read
FragmentFiles == {NoneOpt} \cup { Some(m) : m \in Markups }

RenderInputs ==
    [wit : BOOLEAN, invoked : InvokerResults, file : FragmentFiles]

(***************************************************************************)
(* packs.rs: DistributorPackProvider::resolve and reset_cache              *)
(***************************************************************************)
\* tenants and pack kinds resolutions are asked for
Tenants == {"acme"}
PackKinds == {"GuiLayout", "GuiSkin"}

\* self.packs: the kinds the provider has a pack reference for
ConfiguredKinds == {"GuiLayout"}

\* format!("{}::{:?}", tenant, kind)
CacheKey(tenant, kind) == <<tenant, "::", kind>>

CacheKeys == { CacheKey(t, k) : t \in Tenants, k \in PackKinds }

\* Uuid::new_v4() of the n-th remote resolution
Uuids == <<"u1", "u2", "u3", "u4", "u5", "u6", "u7", "u8">>

\* what the distributor answers to resolve_component, with what the local
\* steps that follow find: the call fails; a local path; an OCI reference
\* whose download succeeds or fails; an internal handle that is an existing
\* local path or is not
RemoteAnswers ==
    { [artifact |-> "none", path |-> <<>>, usable |-> FALSE],
      [artifact |-> "FilePath", path |-> <<"/", "packs", "v1">>, usable |-> TRUE],
      [artifact |-> "OciReference", path |-> <<>>, usable |-> TRUE],
      [artifact |-> "OciReference", path |-> <<>>, usable |-> FALSE],
      [artifact |-> "DistributorInternal", path |-> <<"/", "packs", "v1">>, usable |-> TRUE],
      [artifact |-> "DistributorInternal", path |-> <<"handle">>, usable |-> FALSE] }

\* download_oci: a new directory under the temp dir, named by a fresh uuid
download_oci(n) == <<"/", "tmp", Uuids[n]>>

\* a handle check that takes every internal handle for a local path
Materialize_any_handle(answer, n) ==
    CASE answer.artifact = "none" -> Fail("resolve_component")
      [] answer.artifact = "FilePath" -> Ok(answer.path)
      [] answer.artifact = "OciReference" ->
             IF answer.usable THEN Ok(download_oci(n)) ELSE Fail("download_oci")
      [] OTHER -> Ok(answer.path)

\* the local path of the answer to the n-th remote resolution (resolve, the
\* `?` on resolve_component and the match on resp.artifact)
Materialize(answer, n) ==
    CASE answer.artifact = "none" -> Fail("resolve_component")
      [] answer.artifact = "FilePath" -> Ok(answer.path)
      [] answer.artifact = "OciReference" ->
             IF answer.usable THEN Ok(download_oci(n)) ELSE Fail("download_oci")
      [] OTHER -> IF answer.usable THEN Ok(answer.path) ELSE Fail("materialize_internal")

\* the events of the provider, in the order they happen
StartEvent(call, key) ==
    [ev |-> "start", call |-> call, key |-> key, ok |-> TRUE, path |-> <<>>]
RemoteEvent(call, key, result) ==
    [ev |-> "remote", call |-> call, key |-> key, ok |-> result.ok,
     path |-> IF result.ok THEN <<result.value>> ELSE <<>>]
ReturnEvent(call, key, ok, path) ==
    [ev |-> "return", call |-> call, key |-> key, ok |-> ok, path |-> path]
ClearEvent ==
    [ev |-> "clear", call |-> 0, key |-> <<>>, ok |-> TRUE, path |-> <<>>]

\* self.cache.lock().await.get(&cache_key).cloned()
CacheGet(cache, key) == IF key \in DOMAIN cache THEN cache[key] ELSE NoneOpt

\* a cache insert that stores nothing
CacheInsert_skip(cache, key, path) == cache

\* self.cache.lock().await.insert(cache_key, path.clone())
CacheInsert(cache, key, path) ==
    [k \in DOMAIN cache \cup {key} |-> IF k = key THEN Some(path) ELSE cache[k]]

\* cache.clear()
CacheClear(cache) == [key \in DOMAIN cache |-> NoneOpt]

\* a call of resolve in flight: where it is, its key and the path it found
InFlight(pc, key, path) == [pc |-> pc, key |-> key, path |-> path]

\* a function without the argument c
Drop(f, c) == [x \in DOMAIN f \ {c} |-> f[x]]

\* the number of events of one kind
Count(log, what) == Cardinality({ n \in DOMAIN log : log[n].ev = what })

(***************************************************************************)
(* fragments.rs: WasmtimeFragmentInvoker, the compiled-module cache        *)
(***************************************************************************)
\* the assets root and the component names render is called with
AssetsRoot == <<"/", "packs", "shop", "gui", "assets">>
ComponentNames == {"menu", "cart"}

\* assets_root.join("fragments").join(format!("{component_name}.wasm"))
ComponentPath(assets_root, component_name) ==
    PathJoin(PathJoin(assets_root, <<"fragments">>), <<component_name \o ".wasm">>)

ComponentPaths == { ComponentPath(AssetsRoot, name) : name \in ComponentNames }

\* what a module file is when it is read: not readable, bytes that are no
\* component, or a component
ModuleFiles == {"unreadable", "invalid", "valid"}

\* tokio::fs::read(..).await? and GuiFragmentComponent::instantiate(..)?,
\* the compiled module named by the call that compiled it
Compile(file, call) ==
    CASE file = "unreadable" -> Fail("read")
      [] file = "invalid" -> Fail("compile")
      [] OTHER -> Ok(call)

\* the events of the invoker, in the order they happen
ModEvent(ev, call, path, ok, component, store) ==
    [ev |-> ev, call |-> call, path |-> path, ok |-> ok,
     component |-> component, store |-> store]

\* a cache insert that stores nothing
ModInsert_skip(cache, path, component) == cache

\* a cache insert that stores a module nothing compiled
ModInsert_uncompiled(cache, path, component) == [cache EXCEPT ![path] = Some(0)]

\* self.cache.write().await.insert(component_path.to_path_buf(), arc.clone())
ModInsert(cache, path, component) == [cache EXCEPT ![path] = Some(component)]

\* one store for every call
NewStore_shared(call) == 1

\* Store::new(&self.engine, ()): a new store, which the call that makes it
\* owns; it is named by that call
NewStore(call) == call

\* a call of render in flight: where it is, its module path, the module it
\* got from the cache or compiled, and its store
Rendering(pc, path, component, store) ==
    [pc |-> pc, path |-> path, component |-> component, store |-> store]

\* where a call of render awaits: the read lock, the module file, the write
\* lock
RenderAwaits == {"want_read", "read", "want_write"}

\* where a call of resolve awaits: the lock of the lookup, the distributor
\* or the download, the lock of the insert
ResolveAwaits == {"want_lookup", "remote", "insert"}

(***************************************************************************)
(* tenant.rs: dedup_requirements and requirement_key                       *)
(***************************************************************************)
\* greentic_types::SecretScope { env, tenant, team } and SecretRequirement,
\* with the fields the code reads and a description; strings are sequences
\* of characters
SecretScope(env, tenant, team) == [env |-> env, tenant |-> tenant, team |-> team]
SecretRequirement(key, scope, description) ==
    [key |-> key, scope |-> scope, description |-> description]

\* requirement_key: format!("{}::{}", scope, key), the scope being
\* "{env}/{tenant}/{team}" with "_" for no team, and "_/_/_" for no scope
requirement_key(req) ==
    LET scope == IF IsSome(req.scope)
                 THEN Unwrap(req.scope).env \o <<"/">> \o Unwrap(req.scope).tenant \o <<"/">>
                          \o (IF IsSome(Unwrap(req.scope).team)
                              THEN Unwrap(Unwrap(req.scope).team) ELSE <<"_">>)
                 ELSE <<"_", "/", "_", "/", "_">>
    IN  scope \o <<":", ":">> \o req.key

\* the loop of dedup_requirements from entry i on: `seen` holds the keys met
\* and `out` the requirements kept
RECURSIVE DedupFrom(_, _, _, _)
DedupFrom(requirements, i, seen, out) ==
    IF i > Len(requirements) THEN out
    ELSE LET key == requirement_key(requirements[i])
         IN  IF key \notin seen
             THEN DedupFrom(requirements, i + 1, seen \cup {key}, Append(out, requirements[i]))
             ELSE DedupFrom(requirements, i + 1, seen, out)

\* the loop comparing whole requirements instead of their keys
RECURSIVE DedupWhole(_, _, _, _)
DedupWhole(requirements, i, seen, out) ==
    IF i > Len(requirements) THEN out
    ELSE IF requirements[i] \notin seen
         THEN DedupWhole(requirements, i + 1, seen \cup {requirements[i]},
                         Append(out, requirements[i]))
         ELSE DedupWhole(requirements, i + 1, seen, out)

\* dedup_requirements that takes requirements for duplicates only when all
\* their fields are equal
dedup_requirements_whole(requirements) == DedupWhole(requirements, 1, {}, <<>>)

\* dedup_requirements(requirements: Vec<SecretRequirement>)
dedup_requirements(requirements) == DedupFrom(requirements, 1, {}, <<>>)

\* the scopes, keys and descriptions of the requirements given to it: no
\* scope, scopes spelled with the placeholder "_", and the scope of the
\* crate's test, without and with a team
SecretScopes ==
    { NoneOpt,
      Some(SecretScope(<<"_">>, <<"_">>, NoneOpt)),
      Some(SecretScope(<<"_">>, <<"_">>, Some(<<"_">>))),
      Some(SecretScope(<<"d", "e", "v">>, <<"t">>, NoneOpt)) }
SecretKeys == { <<"d", "b">>, <<"k">> }
Descriptions == { "", "described" }
SecretRequirements ==
    { SecretRequirement(k, s, d) : k \in SecretKeys, s \in SecretScopes, d \in Descriptions }


(***************************************************************************)
(* packs.rs: the load_* operations of FsPackProvider and                   *)
(* DistributorPackProvider; tenant.rs: TenantGuiConfig::load               *)
(***************************************************************************)
\* PackKind with its serde name (rename_all = "kebab-case"), the `kind`
\* discriminator of the manifests, and the GuiPack variant of each kind
KindNames ==
    [GuiLayout |-> "gui-layout", GuiAuth |-> "gui-auth", GuiFeature |-> "gui-feature",
     GuiSkin |-> "gui-skin", GuiTelemetry |-> "gui-telemetry"]
Variants ==
    [GuiLayout |-> "Layout", GuiAuth |-> "Auth", GuiFeature |-> "Feature",
     GuiSkin |-> "Skin", GuiTelemetry |-> "Telemetry"]

\* the kinds whose manifest is deserialized into a struct; the others are
\* kept as raw JSON
TypedKinds == {"GuiLayout", "GuiAuth", "GuiFeature"}

\* the PackProvider operations and the kind each asks for
OpKind ==
    [load_layout |-> "GuiLayout", load_auth |-> "GuiAuth", load_skin |-> "GuiSkin",
     load_telemetry |-> "GuiTelemetry", load_features |-> "GuiFeature"]

\* gui/manifest.json of a pack: whether it can be opened and is JSON, the
\* string under its `kind` key (Option), and whether its body deserializes
\* into the manifest struct of that kind
ManifestFile(readable, kind, parses) ==
    [readable |-> readable, kind |-> kind, parses |-> parses]

ManifestFiles ==
    {ManifestFile(FALSE, NoneOpt, FALSE)}
    \cup { ManifestFile(TRUE, Some(KindNames[k]), p) : k \in TypedKinds, p \in BOOLEAN }
    \cup { ManifestFile(TRUE, kind, TRUE) :
               kind \in {Some("gui-skin"), Some("gui-telemetry"), Some("gui-other"), NoneOpt} }

\* GuiPack::<variant> { manifest, root } as the providers of packs.rs
\* build it; the root is the position of the pack directory (filesystem)
\* or the resolved path (distributor)
GuiPack(variant, manifest, root) == [variant |-> variant, manifest |-> manifest, root |-> root]

\* load_manifest and load_manifest_from_path: open, read and parse as JSON
load_manifest(file) == IF file.readable THEN Ok(file) ELSE Fail("manifest")

\* manifest_json.get("kind").and_then(|v| v.as_str()) == Some(<name of kind>)
KindIs(file, kind) == file.kind = Some(KindNames[kind])

\* the pack built from a manifest of the kind: serde_json::from_value(..)?
\* for the typed kinds, the raw JSON for the others
PackFrom(file, kind, root) ==
    IF kind \in TypedKinds /\ ~file.parses
    THEN Fail("parse")
    ELSE Ok(GuiPack(Variants[kind], file, root))

\* Ok(Some(v)) of Ok(v)
OkSome(result) == IF result.ok THEN Ok(Some(result.value)) ELSE result

\* load_pack that builds the variant the manifest declares, whatever kind
\* was asked for
load_pack_any_kind(root, packs, kind) ==
    IF ~root.ok THEN Fail("resolve")
    ELSE IF ~IsSome(root.value) THEN Ok(NoneOpt)
    ELSE IF ~load_manifest(packs[1]).ok THEN load_manifest(packs[1])
    ELSE IF \E k \in DOMAIN KindNames : KindIs(packs[1], k)
    THEN OkSome(PackFrom(packs[1], CHOOSE k \in DOMAIN KindNames : KindIs(packs[1], k),
                         Unwrap(root.value)))
    ELSE Ok(NoneOpt)

\* DistributorPackProvider::load_pack from the return of resolve on: the
\* resolution failed (`?`), gave no path (no pack reference for the kind)
\* or gave the root, whose manifest is packs[1]
load_pack(root, packs, kind) ==
    IF ~root.ok THEN Fail("resolve")
    ELSE IF ~IsSome(root.value) THEN Ok(NoneOpt)
    ELSE IF ~load_manifest(packs[1]).ok THEN load_manifest(packs[1])
    ELSE IF KindIs(packs[1], kind) THEN OkSome(PackFrom(packs[1], kind, Unwrap(root.value)))
    ELSE Ok(NoneOpt)

\* impl PackProvider for DistributorPackProvider, from the return of
\* resolve on
DistributorPackProvider_load(op, root, packs) ==
    LET pack == load_pack(root, packs, OpKind[op])
    IN  IF ~pack.ok THEN pack
        ELSE IF op = "load_layout"
        THEN IF IsSome(pack.value) THEN Ok(Unwrap(pack.value))
                                   ELSE Fail("no layout pack configured")
        ELSE IF op = "load_features" THEN Ok(pack.value)
        ELSE pack

\* FsPackProvider::discover_packs: the subdirectories of the tenant root in
\* the order read_dir gives them
discover_packs(root, packs) ==
    CASE root = "missing" -> Ok(<<>>)
      [] root = "unlistable" -> Fail("read_dir")
      [] OTHER -> Ok(packs)

\* the loop of load_layout, load_auth, load_skin and load_telemetry that
\* returns the first readable pack, of whatever kind
RECURSIVE FsFirst_any_kind(_, _, _)
FsFirst_any_kind(packs, i, kind) ==
    IF i > Len(packs) THEN Ok(NoneOpt)
    ELSE IF ~load_manifest(packs[i]).ok THEN load_manifest(packs[i])
    ELSE IF \E k \in DOMAIN KindNames : KindIs(packs[i], k)
    THEN OkSome(PackFrom(packs[i], CHOOSE k \in DOMAIN KindNames : KindIs(packs[i], k), i))
    ELSE FsFirst_any_kind(packs, i + 1, kind)

\* the loop that fails at a pack of another kind
RECURSIVE FsFirst_fail_on_other(_, _, _)
FsFirst_fail_on_other(packs, i, kind) ==
    IF i > Len(packs) THEN Ok(NoneOpt)
    ELSE IF ~load_manifest(packs[i]).ok THEN load_manifest(packs[i])
    ELSE IF KindIs(packs[i], kind) THEN OkSome(PackFrom(packs[i], kind, i))
    ELSE Fail("kind")

\* the loop of load_layout, load_auth, load_skin and load_telemetry from
\* candidate i on: the first pack of the kind, every manifest before it
\* opened
RECURSIVE FsFirst(_, _, _)
FsFirst(packs, i, kind) ==
    IF i > Len(packs) THEN Ok(NoneOpt)
    ELSE IF ~load_manifest(packs[i]).ok THEN load_manifest(packs[i])
    ELSE IF KindIs(packs[i], kind) THEN OkSome(PackFrom(packs[i], kind, i))
    ELSE FsFirst(packs, i + 1, kind)

\* the loop of load_features from candidate i on: every pack of the kind
RECURSIVE FsAll(_, _, _)
FsAll(packs, i, kind) ==
    IF i > Len(packs) THEN Ok(<<>>)
    ELSE IF ~load_manifest(packs[i]).ok THEN load_manifest(packs[i])
    ELSE IF KindIs(packs[i], kind)
    THEN IF ~PackFrom(packs[i], kind, i).ok THEN PackFrom(packs[i], kind, i)
         ELSE IF ~FsAll(packs, i + 1, kind).ok THEN FsAll(packs, i + 1, kind)
         ELSE Ok(<<PackFrom(packs[i], kind, i).value>> \o FsAll(packs, i + 1, kind).value)
    ELSE FsAll(packs, i + 1, kind)

\* impl PackProvider for FsPackProvider
FsPackProvider_load(op, root, packs) ==
    LET candidates == discover_packs(root, packs)
    IN  IF ~candidates.ok THEN candidates
        ELSE IF op = "load_features" THEN FsAll(candidates.value, 1, OpKind[op])
        ELSE LET pack == FsFirst(candidates.value, 1, OpKind[op])
             IN  IF ~pack.ok THEN pack
                 ELSE IF op = "load_layout"
                 THEN IF IsSome(pack.value) THEN Ok(Unwrap(pack.value))
                                            ELSE Fail("no layout pack found")
                 ELSE pack

\* TenantGuiConfig::load up to its layout: load_layout(tenant).await?, the
\* Layout variant taken, any other variant running into unreachable!()
LoadLayout(loaded) ==
    IF ~loaded.ok THEN loaded
    ELSE IF loaded.value.variant = "Layout" THEN Ok(loaded.value)
    ELSE Fail("unreachable")

\* the five provider operations in the order TenantGuiConfig::load calls
\* them
LoadOrder == <<"load_layout", "load_auth", "load_skin", "load_telemetry", "load_features">>

\* where a load goes on after the answers it has: it calls the provider
\* operation `op`, or returns `result`
CallNext(op) == [op |-> Some(op), result |-> NoneOpt]
Return(result) == [op |-> NoneOpt, result |-> Some(result)]

\* `match provider.load_<kind>(tenant).await? { Some(GuiPack::<Variant> {..})
\* => Some(..), _ => None }`
OnlyVariant(pack, variant) ==
    IF IsSome(pack) /\ Unwrap(pack).variant = variant THEN pack ELSE NoneOpt

\* the filter_map over load_features: the Feature packs, in order
OnlyFeature(pack) == pack.variant = "Feature"

\* GuiPack::<variant> { manifest, root, secret_requirements, .. } as
\* TenantGuiConfig::load destructures it: a pack that comes with secret
\* requirements
GuiPackWith(variant, manifest, root, secret_requirements) ==
    [variant |-> variant, manifest |-> manifest, root |-> root,
     secret_requirements |-> secret_requirements]

\* the secret_requirements load takes from a pack: those the pack comes
\* with, none for a pack built from manifest and root only
secret_requirements_of(pack) ==
    IF "secret_requirements" \in DOMAIN pack THEN pack.secret_requirements ELSE <<>>

\* the secret_requirements of an optional pack, none without the pack
RequirementsOf(pack) == IF IsSome(pack) THEN secret_requirements_of(Unwrap(pack)) ELSE <<>>

\* `for feature in &feature_packs { secret_requirements.extend(..) }`
RECURSIVE ExtendAll(_, _, _)
ExtendAll(secret_requirements, features, i) ==
    IF i > Len(features) THEN secret_requirements
    ELSE ExtendAll(secret_requirements \o secret_requirements_of(features[i]), features, i + 1)

\* the requirements of the layout, auth, skin, telemetry and feature packs,
\* in that order
MergeRequirements(layout, auth, skin, telemetry, features) ==
    ExtendAll(secret_requirements_of(layout) \o RequirementsOf(auth) \o RequirementsOf(skin)
                  \o RequirementsOf(telemetry),
              features, 1)

\* TenantGuiConfig { layout, auth, skin, telemetry, features,
\* secret_requirements }
TenantGuiConfig(layout, auth, skin, telemetry, features, secret_requirements) ==
    [layout |-> layout, auth |-> auth, skin |-> skin, telemetry |-> telemetry,
     features |-> features, secret_requirements |-> secret_requirements]

\* Ok(Self { .. }) from the five answers of the provider: the packs of the
\* expected variants, and the requirements of these packs merged and
\* deduplicated
BuildConfig(layout, auth, skin, telemetry, features) ==
    TenantGuiConfig(layout, auth, skin, telemetry, features,
                    dedup_requirements(MergeRequirements(layout, auth, skin, telemetry,
                                                         features)))

\* the values load keeps of the answers: the layout pack, the optional
\* packs, the feature packs; nothing of an answer that is an error
Kept(results, n) ==
    IF n = 1 THEN LoadLayout(results[1]).value
    ELSE IF n = 5
    THEN IF results[5].ok THEN SelectSeq(results[5].value, OnlyFeature) ELSE <<>>
    ELSE IF results[n].ok THEN OnlyVariant(results[n].value, Variants[OpKind[LoadOrder[n]]])
    ELSE NoneOpt

\* TenantGuiConfig::load that goes on without the pack when an optional
\* pack fails to load
TenantGuiConfig_load_from_lenient(results) ==
    IF results = <<>> THEN CallNext("load_layout")
    ELSE IF ~LoadLayout(results[1]).ok THEN Return(LoadLayout(results[1]))
    ELSE IF Len(results) < Len(LoadOrder) THEN CallNext(LoadOrder[Len(results) + 1])
    ELSE Return(Ok(BuildConfig(Kept(results, 1), Kept(results, 2), Kept(results, 3),
                               Kept(results, 4), Kept(results, 5))))

\* TenantGuiConfig::load(tenant, domain, pack_provider) after the answers
\* of the provider it has so far: each provider call is followed by `?`,
\* the layout answer by the match on its variant, the fifth answer by the
\* merge of the requirements and Ok(Self { .. })
TenantGuiConfig_load_from(results) ==
    IF results = <<>> THEN CallNext("load_layout")
    ELSE IF ~results[Len(results)].ok THEN Return(results[Len(results)])
    ELSE IF ~LoadLayout(results[1]).ok THEN Return(LoadLayout(results[1]))
    ELSE IF Len(results) < Len(LoadOrder) THEN CallNext(LoadOrder[Len(results) + 1])
    ELSE Return(Ok(BuildConfig(Kept(results, 1), Kept(results, 2), Kept(results, 3),
                               Kept(results, 4), Kept(results, 5))))

\* a single operation of the provider: called, and its answer returned
ProviderOperation(op, results) ==
    IF results = <<>> THEN CallNext(op) ELSE Return(results[1])

\* the load in progress: `what` is the provider operation called or
\* "TenantGuiConfig::load"
LoadControl(what, results) ==
    IF what = "TenantGuiConfig::load" THEN TenantGuiConfig_load_from(results)
                                      ELSE ProviderOperation(what, results)

\* a load in flight: where it is, what was called, the answers of the
\* provider operations so far, what resolve returned to each of them
\* (distributor) and the resolve call it waits for
LoadCall(pc, what, results, roots, call) ==
    [pc |-> pc, what |-> what, results |-> results, roots |-> roots, call |-> call]

\* what a finished load leaves: for a provider operation its answer; for
\* TenantGuiConfig::load its layout step, the provider operations it
\* called and what it returned
LoadOutcome(what, results, result) ==
    IF what = "TenantGuiConfig::load"
    THEN [op |-> what, result |-> LoadLayout(results[1]),
          calls |-> SubSeq(LoadOrder, 1, Len(results)), config |-> result]
    ELSE [op |-> what, result |-> result]

\* what a load runs on: the provider, the tenant, the tenant root with its
\* pack directories (filesystem) or the manifest at the resolved root and
\* the kinds with a pack reference (distributor), how many calls other
\* tasks make on the provider while the load runs, the kind
\* another task has resolved on the provider before that, if any, and for
\* another implementation of PackProvider its answer to each operation
LoadInput(provider, root, packs, configured, others) ==
    [provider |-> provider, tenant |-> "acme", root |-> root, packs |-> packs,
     configured |-> configured, others |-> others, before |-> NoneOpt, answers |-> <<>>]
BesideInput(file, configured, others, before) ==
    [provider |-> "distributor", tenant |-> "acme", root |-> "remote", packs |-> <<file>>,
     configured |-> configured, others |-> others, before |-> before, answers |-> <<>>]
GivenInput(answers) ==
    [provider |-> "given", tenant |-> "acme", root |-> "none", packs |-> <<>>,
     configured |-> {}, others |-> 0, before |-> NoneOpt, answers |-> answers]

\* self.packs of the distributor providers: no pack reference, the layout
\* only, every kind
PackReferences == { {}, {"GuiLayout"}, DOMAIN KindNames }

\* self.packs of the loads that run beside other calls: the layout only,
\* the layout and the skin
BesideReferences == { {"GuiLayout"}, {"GuiLayout", "GuiSkin"} }

\* the kinds other tasks resolve beside a load
BesideKinds == {"GuiLayout", "GuiSkin"}

\* the manifest at the resolved root of the loads that run beside other
\* calls: a layout pack
BesideFiles == { ManifestFile(TRUE, Some("gui-layout"), TRUE) }

\* the requirement lists packs come with: none, one requirement twice with
\* two descriptions, and a second requirement before the first
PackRequirements ==
    LET scope == Some(SecretScope(<<"d", "e", "v">>, <<"t">>, NoneOpt))
    IN  { <<>>,
          <<SecretRequirement(<<"k">>, scope, ""),
            SecretRequirement(<<"k">>, scope, "described")>>,
          <<SecretRequirement(<<"d", "b">>, NoneOpt, ""),
            SecretRequirement(<<"k">>, scope, "described")>> }

\* a pack of the kind as another provider gives it, with requirements
GivenPack(kind, secret_requirements) ==
    GuiPackWith(Variants[kind], ManifestFile(TRUE, Some(KindNames[kind]), TRUE),
                <<"/", "packs", KindNames[kind]>>, secret_requirements)

\* the answers of another provider to the optional operation of a kind:
\* no pack, a pack, an error
GivenOptional(kind) ==
    { Ok(NoneOpt), Fail("provider") }
        \cup { Ok(Some(GivenPack(kind, r))) : r \in PackRequirements }

\* the answers of another provider to load_features: an error, or at most
\* MaxPacks feature packs
GivenFeatures ==
    {Fail("provider")}
        \cup { Ok(packs) :
                 packs \in UNION { [1..n -> { GivenPack("GuiFeature", r) : r \in PackRequirements }] :
                                     n \in 0..MaxPacks } }

(***************************************************************************)
(* worker.rs: WorkerHost, StubWorkerBackend and HttpWorkerBackend.  JSON   *)
(* values are kept as their text; durations are in milliseconds.           *)
(***************************************************************************)
\* greentic_types::TenantCtx, with the fields the worker host reads
TenantCtx(env, tenant_id, session_id) ==
    [env |-> env, tenant_id |-> tenant_id, session_id |-> session_id]

\* HostWorkerMessage { kind, payload }
HostWorkerMessage(kind, payload) == [kind |-> kind, payload |-> payload]

\* build_host_worker_request: version 1.0.0, the session of the tenant
\* context, no correlation and no thread id
build_host_worker_request(tenant_ctx, worker_id, payload) ==
    [version |-> "1.0.0", tenant |-> tenant_ctx, worker_id |-> worker_id,
     payload |-> payload, timestamp_utc |-> "now", correlation_id |-> NoneOpt,
     session_id |-> tenant_ctx.session_id, thread_id |-> NoneOpt]

\* a stub that answers without a message
StubWorkerBackend_invoke_silent(req) ==
    Ok([version |-> req.version, tenant |-> req.tenant, worker_id |-> req.worker_id,
        timestamp_utc |-> req.timestamp_utc, messages |-> <<>>,
        correlation_id |-> req.correlation_id, session_id |-> req.session_id,
        thread_id |-> req.thread_id])

\* StubWorkerBackend::invoke: the request echoed, its payload in one
\* message of kind "stub"
StubWorkerBackend_invoke(req) ==
    Ok([version |-> req.version, tenant |-> req.tenant, worker_id |-> req.worker_id,
        timestamp_utc |-> req.timestamp_utc,
        messages |-> <<HostWorkerMessage("stub", req.payload)>>,
        correlation_id |-> req.correlation_id, session_id |-> req.session_id,
        thread_id |-> req.thread_id])

\* serde_json::to_value of an Option<String>: the string, or null
OptionToJson(o) == IF IsSome(o) THEN Unwrap(o) ELSE "null"

\* host_worker_response_to_json: the response as a JSON object, its
\* messages as an array of objects
host_worker_response_to_json(resp) ==
    Ok([version |-> resp.version,
        tenant |-> [env |-> resp.tenant.env, tenant_id |-> resp.tenant.tenant_id,
                    session_id |-> OptionToJson(resp.tenant.session_id)],
        worker_id |-> resp.worker_id,
        timestamp_utc |-> resp.timestamp_utc,
        messages |-> [n \in DOMAIN resp.messages |->
                        [kind |-> resp.messages[n].kind, payload |-> resp.messages[n].payload]],
        correlation_id |-> OptionToJson(resp.correlation_id),
        session_id |-> OptionToJson(resp.session_id),
        thread_id |-> OptionToJson(resp.thread_id)])

\* the errors of the worker backends: MissingSecretsError, and the
\* anyhow errors made from a message (`what`, with the attempt it names)
WorkerMissingSecrets(missing_secrets, pack_hint, message) ==
    [type |-> "MissingSecretsError", missing_secrets |-> missing_secrets,
     pack_hint |-> pack_hint, message |-> message, what |-> "", attempt |-> 0]
WorkerError(what, attempt) ==
    [type |-> "anyhow", missing_secrets |-> <<>>, pack_hint |-> NoneOpt,
     message |-> NoneOpt, what |-> what, attempt |-> attempt]

\* err.downcast_ref::<MissingSecretsError>()
Downcast(err) == IF err.type = "MissingSecretsError" THEN Some(err) ELSE NoneOpt

\* the body of a gateway response as MissingSecretsPayload, every field
\* with #[serde(default)]
MissingSecretsPayload(missing_secrets, pack_hint, pack_ref, message) ==
    [missing_secrets |-> missing_secrets, pack_hint |-> pack_hint,
     pack_ref |-> pack_ref, message |-> message]

\* what the gateway answers to one request: no answer (transport error or
\* timeout), or a status with a body that cannot be read, is empty, is not
\* the JSON expected, or is (`json`)
GatewayResponse(sent, success, body, json) ==
    [sent |-> sent, success |-> success, body |-> body, json |-> json]

\* parse_missing_secrets_response: the payload of a body that parses and
\* lists at least one missing secret
parse_missing_secrets_response(resp) ==
    IF resp.body \in {"unreadable", "empty", "text"} THEN NoneOpt
    ELSE IF Unwrap(resp.json).missing_secrets = <<>> THEN NoneOpt
    ELSE resp.json

\* a = a.or(b)
OptionOr(a, b) == IF IsSome(a) THEN a ELSE b

\* the response of the worker behind the gateway to a request
GatewayAnswer(req) ==
    [version |-> req.version, tenant |-> req.tenant, worker_id |-> req.worker_id,
     timestamp_utc |-> "later",
     messages |-> <<HostWorkerMessage("text", "done"), HostWorkerMessage("end", "null")>>,
     correlation_id |-> Some("c1"), session_id |-> req.session_id, thread_id |-> NoneOpt]

\* one iteration of the loop of HttpWorkerBackend::invoke up to the backoff:
\* `return` is what the iteration returns, if it returns, and `last_err`
\* the error it leaves otherwise; `attempt` counts from 0
HttpAttempt(req, resp, attempt) ==
    IF ~resp.sent
    THEN [return |-> NoneOpt, last_err |-> WorkerError("request failed", attempt + 1)]
    ELSE IF ~resp.success
    THEN LET missing == parse_missing_secrets_response(resp)
         IN  IF IsSome(missing)
             THEN [return |-> Some(Fail(WorkerMissingSecrets(
                                  Unwrap(missing).missing_secrets,
                                  OptionOr(Unwrap(missing).pack_hint, Unwrap(missing).pack_ref),
                                  Unwrap(missing).message))),
                   last_err |-> WorkerError("", 0)]
             ELSE [return |-> NoneOpt, last_err |-> WorkerError("status", attempt + 1)]
    ELSE IF resp.body = "json" /\ resp.json = NoneOpt
    THEN [return |-> Some(Ok(GatewayAnswer(req))), last_err |-> WorkerError("", 0)]
    ELSE [return |-> Some(Fail(WorkerError("decode", 0))), last_err |-> WorkerError("", 0)]

\* invoke_worker turning every error of the backend into a message
HostResult_as_message(backend_result) ==
    IF backend_result.ok THEN host_worker_response_to_json(backend_result.value)
    ELSE Fail(WorkerError("worker backend call failed", 0))

\* the match of WorkerHost::invoke_worker on what the backend returned: the
\* response as JSON, or the backend's error as it is
HostResult(backend_result) ==
    IF backend_result.ok THEN host_worker_response_to_json(backend_result.value)
    ELSE backend_result

\* the loop going on for ever
AttemptFollows_always(attempt, retries) == TRUE

\* `if attempt < self.cfg.retries`: another iteration of
\* `for attempt in 0..=self.cfg.retries` follows this one
AttemptFollows(attempt, retries) == attempt < retries

\* `self.cfg.backoff_base * (attempt + 1)`
BackoffDelay(backoff_base, attempt) == backoff_base * (attempt + 1)

\* the events of a call: a request sent to the gateway with the answer it
\* got, and a backoff sleep (`attempt` counts from 1)
RequestEvent(attempt, resp) == [ev |-> "request", attempt |-> attempt, resp |-> resp]
SleepEvent(attempt, delay) == [ev |-> "sleep", attempt |-> attempt, delay |-> delay]

\* the loop of HttpWorkerBackend::invoke between two of its awaits
HttpLoop(pc, attempt, last_err) == [pc |-> pc, attempt |-> attempt, last_err |-> last_err]

\* the inputs of a call
TenantCtxs ==
    { TenantCtx("dev", "tenant", NoneOpt), TenantCtx("dev", "acme", Some("s1")) }
WorkerIds == { "worker.echo", "worker.mail" }
Payloads == { "{\"x\":1}", "null" }
BackoffBases == { 0, 200 }

\* the answers of the gateway
GatewayResponses ==
    { GatewayResponse(FALSE, FALSE, "", NoneOpt),
      GatewayResponse(TRUE, TRUE, "json", NoneOpt),
      GatewayResponse(TRUE, TRUE, "text", NoneOpt) }
    \cup { GatewayResponse(TRUE, FALSE, body, NoneOpt) : body \in {"unreadable", "empty", "text"} }
    \cup { GatewayResponse(TRUE, FALSE, "json", Some(payload)) :
             payload \in { MissingSecretsPayload(<<>>, Some("hint"), NoneOpt, NoneOpt),
                           MissingSecretsPayload(<<"db/password">>, Some("hint"), Some("ref"), Some("m")),
                           MissingSecretsPayload(<<"db/password">>, NoneOpt, Some("ref"), NoneOpt),
                           MissingSecretsPayload(<<"db/password">>, NoneOpt, NoneOpt, NoneOpt) } }


(***************************************************************************)
(* fragments.rs: the tokio RwLock around the compiled-module cache         *)
(***************************************************************************)
\* the lock: the calls that hold a read guard and the call that holds the
\* write guard (Option)
RwLock(readers, writer) == [readers |-> readers, writer |-> writer]

\* cache.read().await is granted while no call holds the write guard, and
\* cache.write().await while no call holds any guard
CanRead(lock) == lock.writer = NoneOpt
CanWrite(lock) == lock.readers = {} /\ lock.writer = NoneOpt

\* the read guard living to the end of the `if let .. else` expression, so
\* that the else block runs with it
GuardAfterMiss_held(readers, call) == readers

\* the readers when the else block of `if let Some(cached) =
\* self.cache.read().await.get(component_path).cloned()` is entered: the
\* guard is a temporary of the scrutinee, dropped before the else block
GuardAfterMiss(readers, call) == readers \ {call}


(***************************************************************************)
(* Actions.                                                                *)
(***************************************************************************)
\* one request through routing::resolve_route.  The handler keeps no state
\* between requests, so a behaviour handles one request against its
\* configuration.
HandleRequest ==
    /\ ~IsSome(decision)
    /\ \E p \in RequestPaths, token \in Tokens, store \in StoreAnswers,
          readable \in BOOLEAN :
        \E out \in {resolve_route(cfg, p, token, store, readable)} :
        /\ reqPath' = Some(p)
        /\ resolved' = out.resolved
        /\ session' = out.session
        /\ io' = out.io
        /\ decision' = Some(out.decision)
        /\ UNCHANGED <<packFiles, cfg, strIn, patIn, strOut, fragVars, rendVars, provVars, modVars, loadVars, dedupVars, workVars, modLock, provLock>>

\* normalize_route applied to the raw string
ApplyNormalize ==
    /\ ~IsSome(strOut)
    /\ strOut' = Some(normalize_route(strIn))
    /\ UNCHANGED <<packFiles, cfg, reqPath, resolved, session, io, decision, strIn, patIn,
                 fragVars, rendVars, provVars, modVars, loadVars, dedupVars, workVars, modLock, provLock>>

\* path_matches applied to the normalized request path and the pattern,
\* as resolve_route calls it
ApplyMatch ==
    /\ ~IsSome(strOut)
    /\ strOut' = Some(path_matches(normalize_route(strIn), patIn))
    /\ UNCHANGED <<packFiles, cfg, reqPath, resolved, session, io, decision, strIn, patIn,
                 fragVars, rendVars, provVars, modVars, loadVars, dedupVars, workVars, modLock, provLock>>

\* inject_fragments on the page, bindings and renderer outcomes given
InjectFragments ==
    /\ ~IsSome(fragOut)
    /\ \E out \in {inject_fragments(fragIn.html, fragIn.targets, fragIn.outcomes)} :
        /\ fragOut' = Some(out.result)
        /\ fragLog' = out.calls
    /\ UNCHANGED <<packFiles, cfg, reqPath, resolved, session, io, decision,
                   strIn, patIn, strOut, fragIn, rendVars, provVars, modVars, loadVars, dedupVars, workVars, modLock, provLock>>

\* WitFragmentRenderer::render_fragment on the invoker's answer
RenderWit ==
    /\ ~IsSome(rendOut)
    /\ rendIn.wit
    /\ \E out \in {WitFragmentRenderer_render(rendIn.invoked)} :
        /\ rendOut' = Some(out.result)
        /\ rendLog' = out.calls
    /\ rendBy' = "wit"
    /\ UNCHANGED <<packFiles, cfg, reqPath, resolved, session, io, decision,
                   strIn, patIn, strOut, fragVars, rendIn, provVars, modVars, loadVars, dedupVars, workVars, modLock, provLock>>

\* CompositeFragmentRenderer::render_fragment
RenderComposite ==
    /\ ~IsSome(rendOut)
    /\ \E out \in {CompositeFragmentRenderer_render(rendIn.wit, rendIn.invoked, rendIn.file)} :
        /\ rendOut' = Some(out.result)
        /\ rendLog' = out.calls
    /\ rendBy' = "composite"
    /\ UNCHANGED <<packFiles, cfg, reqPath, resolved, session, io, decision,
                   strIn, patIn, strOut, fragVars, rendIn, provVars, modVars, loadVars, dedupVars, workVars, modLock, provLock>>

\* resolve(tenant, kind) is called on a provider with the pack references
\* `packs`: a kind without pack reference returns Ok(None); otherwise the
\* call asks for the lock of its lookup, and whatever other calls do before
\* it gets the lock comes before the lookup
ResolveCalled(tenant, kind, packs) ==
    LET key == CacheKey(tenant, kind)
        call == Count(provLog, "start") + 1
        started == Append(provLog, StartEvent(call, key))
    IN  /\ provCache' = provCache
        /\ IF kind \notin packs
           THEN /\ provLog' = Append(started, ReturnEvent(call, key, TRUE, NoneOpt))
                /\ UNCHANGED provCalls
           ELSE /\ provLog' = started
                /\ provCalls' = [c \in DOMAIN provCalls \cup {call} |->
                                   IF c = call THEN InFlight("want_lookup", key, <<>>)
                                               ELSE provCalls[c]]

\* a call of resolve on the provider
ResolveStart ==
    /\ Count(provLog, "start") + Count(provLog, "clear") < MaxCalls
    /\ \E tenant \in Tenants, kind \in PackKinds : ResolveCalled(tenant, kind, ConfiguredKinds)
    /\ UNCHANGED <<packFiles, cfg, reqPath, resolved, session, io, decision,
                   strIn, patIn, strOut, fragVars, rendVars, modVars, loadVars, dedupVars, workVars, modLock, provLock>>

\* self.cache.lock().await.get(&cache_key).cloned(): the guard is taken and
\* dropped within the step.  A cached path is returned; otherwise the call
\* goes on to the remote resolution
ResolveLookup(call) ==
    /\ provCalls[call].pc = "want_lookup"
    /\ LET key == provCalls[call].key
       IN  IF IsSome(CacheGet(provCache, key))
           THEN /\ provLog' = Append(provLog, ReturnEvent(call, key, TRUE, CacheGet(provCache, key)))
                /\ provCalls' = Drop(provCalls, call)
           ELSE /\ provCalls' = [provCalls EXCEPT ![call].pc = "remote"]
                /\ UNCHANGED provLog
    /\ UNCHANGED <<packFiles, cfg, reqPath, resolved, session, io, decision,
                   strIn, patIn, strOut, fragVars, rendVars, provCache, modVars, loadVars, dedupVars, workVars, modLock, provLock>>

\* resolve storing an entry for a resolution that failed
ResolveAnswered_caching_failure(call, answer) ==
    /\ provCalls[call].pc = "remote"
    /\ LET key == provCalls[call].key
           result == Materialize(answer, Count(provLog, "remote") + 1)
           called == Append(provLog, RemoteEvent(call, key, result))
       IN  IF result.ok
           THEN /\ provLog' = called
                /\ provCalls' = [provCalls EXCEPT ![call] = InFlight("insert", key, result.value)]
                /\ UNCHANGED provCache
           ELSE /\ provLog' = Append(called, ReturnEvent(call, key, FALSE, NoneOpt))
                /\ provCalls' = Drop(provCalls, call)
                /\ provCache' = CacheInsert(provCache, key, <<>>)
    /\ UNCHANGED <<packFiles, cfg, reqPath, resolved, session, io, decision,
                   strIn, patIn, strOut, fragVars, rendVars, modVars, loadVars, dedupVars, workVars, modLock, provLock>>

\* resolve from the cache miss to the local path, for one answer of the
\* distributor: the remote resolution and the download or handle check; a
\* failure returns the error
ResolveAnswered(call, answer) ==
    /\ provCalls[call].pc = "remote"
    /\ LET key == provCalls[call].key
           result == Materialize(answer, Count(provLog, "remote") + 1)
           called == Append(provLog, RemoteEvent(call, key, result))
       IN  IF result.ok
           THEN /\ provLog' = called
                /\ provCalls' = [provCalls EXCEPT ![call] = InFlight("insert", key, result.value)]
           ELSE /\ provLog' = Append(called, ReturnEvent(call, key, FALSE, NoneOpt))
                /\ provCalls' = Drop(provCalls, call)
    /\ UNCHANGED <<packFiles, cfg, reqPath, resolved, session, io, decision,
                   strIn, patIn, strOut, fragVars, rendVars, provCache, modVars, loadVars, dedupVars, workVars, modLock, provLock>>

\* the same for whatever the distributor answers
ResolveRemote(call) == \E answer \in RemoteAnswers : ResolveAnswered(call, answer)

\* resolve from the insert to its return: the lock is taken again, the path
\* stored under the key and returned
ResolveInsert(call) ==
    /\ provCalls[call].pc = "insert"
    /\ LET key == provCalls[call].key
           path == provCalls[call].path
       IN  /\ provCache' = CacheInsert(provCache, key, path)
           /\ provLog' = Append(provLog, ReturnEvent(call, key, TRUE, Some(path)))
    /\ provCalls' = Drop(provCalls, call)
    /\ UNCHANGED <<packFiles, cfg, reqPath, resolved, session, io, decision,
                   strIn, patIn, strOut, fragVars, rendVars, modVars, loadVars, dedupVars, workVars, modLock, provLock>>

\* reset_cache(): every entry removed under the lock
reset_cache ==
    /\ provCache' = CacheClear(provCache)
    /\ provLog' = Append(provLog, ClearEvent)

\* a call of clear_cache(), that is reset_cache(), on the provider
ClearCache ==
    /\ Count(provLog, "start") + Count(provLog, "clear") < MaxCalls
    /\ reset_cache
    /\ UNCHANGED <<packFiles, cfg, reqPath, resolved, session, io, decision,
                   strIn, patIn, strOut, fragVars, rendVars, provCalls, modVars, loadVars, dedupVars, workVars, modLock, provLock>>

\* self.cache.lock().await returns the guard, for the lookup or for the
\* insert
AcquireMutex(call) ==
    /\ provCalls[call].pc \in {"want_lookup", "insert"}
    /\ provLock = NoneOpt
    /\ provLock' = Some(call)
    /\ provCalls' = [provCalls EXCEPT ![call].pc =
                        IF provCalls[call].pc = "want_lookup" THEN "lookup" ELSE "store"]
    /\ UNCHANGED <<packFiles, cfg, reqPath, resolved, session, io, decision,
                   strIn, patIn, strOut, fragVars, rendVars, provCache, provLog, modVars, loadVars, dedupVars, workVars, modLock>>

\* .get(&cache_key).cloned() under the guard, which is dropped at the end
\* of the `if let`: a cached path is returned, otherwise the call goes on to
\* the remote resolution
LookupUnderLock(call) ==
    /\ provCalls[call].pc = "lookup"
    /\ LET key == provCalls[call].key
       IN  IF IsSome(CacheGet(provCache, key))
           THEN /\ provLog' = Append(provLog, ReturnEvent(call, key, TRUE, CacheGet(provCache, key)))
                /\ provCalls' = Drop(provCalls, call)
           ELSE /\ provCalls' = [provCalls EXCEPT ![call].pc = "remote"]
                /\ UNCHANGED provLog
    /\ provLock' = NoneOpt
    /\ UNCHANGED <<packFiles, cfg, reqPath, resolved, session, io, decision,
                   strIn, patIn, strOut, fragVars, rendVars, provCache, modVars, loadVars, dedupVars, workVars, modLock>>

\* .insert(cache_key, path.clone()) under the guard, which is dropped at
\* the end of the statement, and the path is returned
InsertUnderLock(call) ==
    /\ provCalls[call].pc = "store"
    /\ LET key == provCalls[call].key
           path == provCalls[call].path
       IN  /\ provCache' = CacheInsert(provCache, key, path)
           /\ provLog' = Append(provLog, ReturnEvent(call, key, TRUE, Some(path)))
    /\ provCalls' = Drop(provCalls, call)
    /\ provLock' = NoneOpt
    /\ UNCHANGED <<packFiles, cfg, reqPath, resolved, session, io, decision,
                   strIn, patIn, strOut, fragVars, rendVars, modVars, loadVars, dedupVars, workVars, modLock>>

\* clear_cache() when the lock is free: the guard is taken, the map emptied
\* and the guard dropped
ClearUnderLock ==
    /\ provLock = NoneOpt
    /\ ClearCache

\* render is called: the module path is built and instantiate asks for the
\* read lock
InvokeStart ==
    /\ Count(modLog, "start") < MaxRenders
    /\ \E name \in ComponentNames :
        LET path == ComponentPath(AssetsRoot, name)
            call == Count(modLog, "start") + 1
        IN  /\ modLog' = Append(modLog, ModEvent("start", call, path, TRUE, NoneOpt, NoneOpt))
            /\ modCalls' = [c \in DOMAIN modCalls \cup {call} |->
                              IF c = call THEN Rendering("want_read", path, NoneOpt, NoneOpt)
                                          ELSE modCalls[c]]
    /\ UNCHANGED <<packFiles, cfg, reqPath, resolved, session, io, decision,
                   strIn, patIn, strOut, fragVars, rendVars, provVars, loadVars,
                   dedupVars, workVars, modCache, modLock, provLock>>

\* self.cache.read().await.get(component_path).cloned(): the read guard is
\* taken and dropped within the step.  With the module cached the call goes
\* on to Store::new with it and is still in flight; otherwise it goes on to
\* read the module file
InvokeLookup(call) ==
    /\ modCalls[call].pc = "want_read"
    /\ LET path == modCalls[call].path
       IN  modCalls' = [modCalls EXCEPT ![call] =
                          IF IsSome(modCache[path])
                          THEN Rendering("store", path, modCache[path], NoneOpt)
                          ELSE Rendering("read", path, NoneOpt, NoneOpt)]
    /\ UNCHANGED <<packFiles, cfg, reqPath, resolved, session, io, decision,
                   strIn, patIn, strOut, fragVars, rendVars, provVars, loadVars,
                   dedupVars, workVars, modCache, modLog, modLock, provLock>>

\* render from the cache miss to the compiled module: the file is read and
\* compiled with no lock held; a failure of either returns the error, a
\* compiled module goes on to ask for the write lock
InvokeCompile(call) ==
    /\ modCalls[call].pc = "read"
    /\ \E file \in ModuleFiles :
        LET path == modCalls[call].path
            result == Compile(file, call)
            read == Append(modLog, ModEvent("read", call, path, file # "unreadable", NoneOpt, NoneOpt))
            compiled == IF file = "unreadable" THEN read
                        ELSE Append(read, ModEvent("compile", call, path, result.ok,
                                                   IF result.ok THEN Some(result.value) ELSE NoneOpt,
                                                   NoneOpt))
        IN  IF result.ok
            THEN /\ modLog' = compiled
                 /\ modCalls' = [modCalls EXCEPT ![call] =
                                   Rendering("want_write", path, Some(result.value), NoneOpt)]
            ELSE /\ modLog' = Append(compiled, ModEvent("finish", call, path, FALSE, NoneOpt, NoneOpt))
                 /\ modCalls' = Drop(modCalls, call)
    /\ UNCHANGED <<packFiles, cfg, reqPath, resolved, session, io, decision,
                   strIn, patIn, strOut, fragVars, rendVars, provVars, modCache, loadVars, dedupVars, workVars, modLock, provLock>>

\* self.cache.write().await.insert(..): the write guard is taken and
\* dropped within the step; the call goes on to Store::new with the module
\* it compiled and is still in flight
InvokeInsert(call) ==
    /\ modCalls[call].pc = "want_write"
    /\ LET path == modCalls[call].path
           component == Unwrap(modCalls[call].component)
       IN  /\ modCache' = ModInsert(modCache, path, component)
           /\ modLog' = Append(modLog, ModEvent("insert", call, path, TRUE, Some(component), NoneOpt))
    /\ modCalls' = [modCalls EXCEPT ![call].pc = "store"]
    /\ UNCHANGED <<packFiles, cfg, reqPath, resolved, session, io, decision,
                   strIn, patIn, strOut, fragVars, rendVars, provVars, loadVars, dedupVars, workVars, modLock, provLock>>

\* the end of instantiate, with no lock held: Linker::new and Store::new
\* make the call's own store, and neither can fail
InvokeStore(call) ==
    /\ modCalls[call].pc = "store"
    /\ modCalls' = [modCalls EXCEPT ![call].pc = "render",
                                      ![call].store = Some(NewStore(call))]
    /\ UNCHANGED <<packFiles, cfg, reqPath, resolved, session, io, decision,
                   strIn, patIn, strOut, fragVars, rendVars, provVars, modCache, modLog, loadVars, dedupVars, workVars, modLock, provLock>>

\* GuiFragment::instantiate in the call's store and, back in render,
\* call_render_fragment on the instance: markup, or the error of either,
\* and the call ends and drops its store
InvokeRender(call) ==
    /\ modCalls[call].pc = "render"
    /\ \E rendered \in BOOLEAN :
           modLog' = Append(modLog, ModEvent("finish", call, modCalls[call].path, rendered,
                                            modCalls[call].component, modCalls[call].store))
    /\ modCalls' = Drop(modCalls, call)
    /\ UNCHANGED <<packFiles, cfg, reqPath, resolved, session, io, decision,
                   strIn, patIn, strOut, fragVars, rendVars, provVars, modCache, loadVars, dedupVars, workVars, modLock, provLock>>

\* dropping the future of a call drops the guards it owns
GuardsDropped(lock, call) ==
    [readers |-> lock.readers \ {call},
     writer |-> IF lock.writer = Some(call) THEN NoneOpt ELSE lock.writer]
MutexDropped(lock, call) == IF lock = Some(call) THEN NoneOpt ELSE lock

\* a request is abandoned while its render awaits the read lock, the
\* module file or the write lock: the future is dropped where it awaits and
\* takes no further step
AbandonRender(call) ==
    /\ modCalls[call].pc \in RenderAwaits
    /\ modLog' = Append(modLog, ModEvent("abandon", call, modCalls[call].path, FALSE,
                                         modCalls[call].component, NoneOpt))
    /\ modCalls' = Drop(modCalls, call)
    /\ modLock' = GuardsDropped(modLock, call)
    /\ UNCHANGED <<packFiles, cfg, reqPath, resolved, session, io, decision,
                   strIn, patIn, strOut, fragVars, rendVars, provVars, modCache, loadVars, dedupVars, workVars, provLock>>

\* a request is abandoned while its resolve awaits the lock of the lookup,
\* the distributor, the download or the lock of the insert: the future is
\* dropped where it awaits and takes no further step
AbandonResolve(call) ==
    /\ provCalls[call].pc \in ResolveAwaits
    /\ provLog' = Append(provLog, [ev |-> "abandon", call |-> call, key |-> provCalls[call].key,
                                   ok |-> FALSE, path |-> NoneOpt])
    /\ provCalls' = Drop(provCalls, call)
    /\ provLock' = MutexDropped(provLock, call)
    /\ UNCHANGED <<packFiles, cfg, reqPath, resolved, session, io, decision,
                   strIn, patIn, strOut, fragVars, rendVars, provCache, modVars, loadVars, dedupVars, workVars, modLock>>

\* a load goes on after an answer of the provider: it returns, or it is
\* about to call the next provider operation
LoadGoesOn(what, results, roots) ==
    IF IsSome(LoadControl(what, results).result)
    THEN /\ loadOut' = Some(LoadOutcome(what, results,
                                        Unwrap(LoadControl(what, results).result)))
         /\ loadCall' = LoadCall("done", what, results, roots, 0)
    ELSE /\ loadOut' = loadOut
         /\ loadCall' = LoadCall("call", what, results, roots, 0)

\* the provider operation the load calls next.  The filesystem provider
\* answers from the tenant root, another provider with its given answer.
\* The distributor provider calls resolve: without pack reference the
\* operation answers Ok(None) at once; otherwise the operation waits for
\* resolve, which waits for the lock of its cache lookup.
ProviderCall(what, results, roots) ==
    LET op == Unwrap(LoadControl(what, results).op)
    IN  IF loadIn.provider = "fs"
        THEN /\ LoadGoesOn(what,
                           Append(results, FsPackProvider_load(op, loadIn.root, loadIn.packs)),
                           roots)
             /\ UNCHANGED provVars
        ELSE IF loadIn.provider = "given"
        THEN /\ LoadGoesOn(what, Append(results, loadIn.answers[op]), roots)
             /\ UNCHANGED provVars
        ELSE /\ ResolveCalled(loadIn.tenant, OpKind[op], loadIn.configured)
             /\ IF OpKind[op] \notin loadIn.configured
                THEN LoadGoesOn(what,
                                Append(results,
                                       DistributorPackProvider_load(op, Ok(NoneOpt), loadIn.packs)),
                                Append(roots, Ok(NoneOpt)))
                ELSE /\ loadOut' = loadOut
                     /\ loadCall' = LoadCall("resolving", what, results, roots,
                                             Count(provLog, "start") + 1)

\* the resolve another task made on the provider before the load, if any,
\* has returned
ResolvedBefore ==
    IsSome(loadIn.before) =>
        \E n \in DOMAIN provLog : provLog[n].ev = "return" /\ provLog[n].call = 1

\* one operation of the PackProvider on the tenant's packs is called
LoadPacks ==
    /\ loadCall.pc = "idle"
    /\ ResolvedBefore
    /\ \E op \in DOMAIN OpKind : ProviderCall(op, <<>>, <<>>)
    /\ UNCHANGED <<packFiles, cfg, reqPath, resolved, session, io, decision,
                   strIn, patIn, strOut, fragVars, rendVars, modVars, loadIn, dedupVars, workVars, modLock, provLock>>

\* TenantGuiConfig::load is called on the tenant's packs: it calls
\* load_layout
LoadTenant ==
    /\ loadCall.pc = "idle"
    /\ ResolvedBefore
    /\ ProviderCall("TenantGuiConfig::load", <<>>, <<>>)
    /\ UNCHANGED <<packFiles, cfg, reqPath, resolved, session, io, decision,
                   strIn, patIn, strOut, fragVars, rendVars, modVars, loadIn, dedupVars, workVars, modLock, provLock>>

\* TenantGuiConfig::load calls its next provider operation
LoadNext ==
    /\ loadCall.pc = "call"
    /\ ProviderCall(loadCall.what, loadCall.results, loadCall.roots)
    /\ UNCHANGED <<packFiles, cfg, reqPath, resolved, session, io, decision,
                   strIn, patIn, strOut, fragVars, rendVars, modVars, loadIn, dedupVars, workVars, modLock, provLock>>

\* resolve has returned to load_pack, from the cache or after the remote
\* resolution: the error goes up with `?`, a path is the root whose
\* manifest is read, and the operation answers
LoadManifest ==
    /\ loadCall.pc = "resolving"
    /\ \E n \in DOMAIN provLog :
           /\ provLog[n].ev = "return"
           /\ provLog[n].call = loadCall.call
           /\ \E root \in {IF provLog[n].ok THEN Ok(provLog[n].path) ELSE Fail("resolve")} :
                  LoadGoesOn(loadCall.what,
                             Append(loadCall.results,
                                    DistributorPackProvider_load(
                                        Unwrap(LoadControl(loadCall.what, loadCall.results).op),
                                        root, loadIn.packs)),
                             Append(loadCall.roots, root))
    /\ UNCHANGED <<packFiles, cfg, reqPath, resolved, session, io, decision,
                   strIn, patIn, strOut, fragVars, rendVars, provVars, modVars, loadIn, dedupVars, workVars, modLock, provLock>>

\* another task resolves a pack of the tenant on the provider before the
\* load is called
ResolveBefore ==
    /\ loadIn.provider = "distributor"
    /\ IsSome(loadIn.before)
    /\ provLog = <<>>
    /\ ResolveCalled(loadIn.tenant, Unwrap(loadIn.before), loadIn.configured)
    /\ UNCHANGED <<packFiles, cfg, reqPath, resolved, session, io, decision,
                   strIn, patIn, strOut, fragVars, rendVars, modVars, loadVars, dedupVars, workVars, modLock, provLock>>

\* the calls another task made on the provider while the load runs: the
\* resolutions started and the clears, less the resolutions of the load
\* itself and the resolution made before
BesideCalls ==
    Count(provLog, "start") + Count(provLog, "clear") - Len(loadCall.roots)
        - (IF loadCall.pc = "resolving" THEN 1 ELSE 0)
        - Len(loadIn.before)

\* the other task is in no call of resolve: the only resolution in flight,
\* if any, is that of the load
OtherReturned ==
    \A call \in DOMAIN provCalls : loadCall.pc = "resolving" /\ call = loadCall.call

\* another task resolves a pack of the tenant on the same provider while
\* the load runs
ResolveBeside ==
    /\ loadIn.provider = "distributor"
    /\ loadCall.pc \in {"call", "resolving"}
    /\ BesideCalls < loadIn.others
    /\ OtherReturned
    /\ \E kind \in BesideKinds : ResolveCalled(loadIn.tenant, kind, loadIn.configured)
    /\ UNCHANGED <<packFiles, cfg, reqPath, resolved, session, io, decision,
                   strIn, patIn, strOut, fragVars, rendVars, modVars, loadVars, dedupVars, workVars, modLock, provLock>>

\* clear_cache() on the provider while the load runs
ClearBeside ==
    /\ loadIn.provider = "distributor"
    /\ loadCall.pc \in {"call", "resolving"}
    /\ BesideCalls < loadIn.others
    /\ OtherReturned
    /\ reset_cache
    /\ UNCHANGED <<packFiles, cfg, reqPath, resolved, session, io, decision,
                   strIn, patIn, strOut, fragVars, rendVars, provCalls, modVars, loadVars, dedupVars, workVars, modLock, provLock>>

\* dedup_requirements applied to the list: first to the requirements
\* collected from the packs, then to its own output
ApplyDedup ==
    /\ Len(dedupOut) < 2
    /\ \E out \in {dedup_requirements(IF dedupOut = <<>> THEN dedupIn
                                      ELSE dedupOut[Len(dedupOut)])} :
           dedupOut' = Append(dedupOut, out)
    /\ UNCHANGED <<packFiles, cfg, reqPath, resolved, session, io, decision,
                   strIn, patIn, strOut, fragVars, rendVars, provVars, modVars, loadVars,
                   dedupIn, workVars, modLock, provLock>>


\* WorkerHost::invoke_worker up to the first await of its backend: the stub
\* answers at once; the HTTP backend joins the URL and enters its loop
InvokeWorker ==
    /\ workCall.pc = "idle"
    /\ LET req == build_host_worker_request(workIn.tenant_ctx, workIn.worker_id, workIn.payload)
       IN  IF workIn.backend = "stub"
           THEN /\ workOut' = Some(HostResult(StubWorkerBackend_invoke(req)))
                /\ workCall' = HttpLoop("done", 0, NoneOpt)
           ELSE IF ~workIn.url_joins
           THEN /\ workOut' = Some(HostResult(Fail(WorkerError("url", 0))))
                /\ workCall' = HttpLoop("done", 0, NoneOpt)
           ELSE /\ workOut' = NoneOpt
                /\ workCall' = HttpLoop("send", 0, NoneOpt)
    /\ UNCHANGED <<packFiles, cfg, reqPath, resolved, session, io, decision,
                   strIn, patIn, strOut, fragVars, rendVars, provVars, modVars, loadVars,
                   dedupVars, workIn, workLog, modLock, provLock>>

\* one request of HttpWorkerBackend::invoke and what follows it up to the
\* next await: a return, the end of the loop with the last error, or the
\* backoff before the next attempt
SendRequest ==
    /\ workCall.pc = "send"
    /\ \E resp \in GatewayResponses :
        LET req == build_host_worker_request(workIn.tenant_ctx, workIn.worker_id, workIn.payload)
            attempt == workCall.attempt
            done == HttpAttempt(req, resp, attempt)
        IN  /\ workLog' = Append(workLog, RequestEvent(attempt + 1, resp))
            /\ IF IsSome(done.return)
               THEN /\ workOut' = Some(HostResult(Unwrap(done.return)))
                    /\ workCall' = HttpLoop("done", attempt, NoneOpt)
               ELSE IF AttemptFollows(attempt, workIn.retries)
               THEN /\ workOut' = NoneOpt
                    /\ workCall' = HttpLoop("sleep", attempt, Some(done.last_err))
               ELSE /\ workOut' = Some(HostResult(Fail(done.last_err)))
                    /\ workCall' = HttpLoop("done", attempt, Some(done.last_err))
    /\ UNCHANGED <<packFiles, cfg, reqPath, resolved, session, io, decision,
                   strIn, patIn, strOut, fragVars, rendVars, provVars, modVars, loadVars,
                   dedupVars, workIn, modLock, provLock>>

\* the backoff of HttpWorkerBackend::invoke: sleep(backoff_base * (attempt + 1)),
\* then the next iteration
Backoff ==
    /\ workCall.pc = "sleep"
    /\ workLog' = Append(workLog, SleepEvent(workCall.attempt + 1,
                                             BackoffDelay(workIn.backoff_base, workCall.attempt)))
    /\ workCall' = HttpLoop("send", workCall.attempt + 1, workCall.last_err)
    /\ UNCHANGED <<packFiles, cfg, reqPath, resolved, session, io, decision,
                   strIn, patIn, strOut, fragVars, rendVars, provVars, modVars, loadVars,
                   dedupVars, workIn, workOut, modLock, provLock>>

\* self.cache.read().await returns the read guard
AcquireRead(call) ==
    /\ modCalls[call].pc = "want_read"
    /\ CanRead(modLock)
    /\ modLock' = RwLock(modLock.readers \cup {call}, modLock.writer)
    /\ modCalls' = [modCalls EXCEPT ![call].pc = "lookup"]
    /\ UNCHANGED <<packFiles, cfg, reqPath, resolved, session, io, decision,
                   strIn, patIn, strOut, fragVars, rendVars, provVars, loadVars,
                   dedupVars, workVars, modCache, modLog, provLock>>

\* .get(component_path).cloned() under the read guard: with the module
\* cached the guard is dropped and the call goes on to Store::new with that
\* module, still in flight and with no lock; otherwise the else block is
\* entered
LookupUnderRead(call) ==
    /\ modCalls[call].pc = "lookup"
    /\ LET path == modCalls[call].path
       IN  IF IsSome(modCache[path])
           THEN /\ modLock' = RwLock(modLock.readers \ {call}, modLock.writer)
                /\ modCalls' = [modCalls EXCEPT ![call] =
                                  Rendering("store", path, modCache[path], NoneOpt)]
           ELSE /\ modLock' = RwLock(GuardAfterMiss(modLock.readers, call), modLock.writer)
                /\ modCalls' = [modCalls EXCEPT ![call].pc = "read"]
    /\ UNCHANGED <<packFiles, cfg, reqPath, resolved, session, io, decision,
                   strIn, patIn, strOut, fragVars, rendVars, provVars, loadVars,
                   dedupVars, workVars, modCache, modLog, provLock>>

\* the else block with no lock held: the file is read and compiled; a
\* failure of either returns the error, a compiled module goes on to ask for
\* the write lock
CompileOnMiss(call) ==
    /\ modCalls[call].pc = "read"
    /\ \E file \in ModuleFiles :
        LET path == modCalls[call].path
            result == Compile(file, call)
        IN  IF result.ok
            THEN /\ modCalls' = [modCalls EXCEPT ![call] =
                                   Rendering("want_write", path, Some(result.value), NoneOpt)]
                 /\ UNCHANGED modLog
            ELSE /\ modLog' = Append(modLog, ModEvent("finish", call, path, FALSE, NoneOpt, NoneOpt))
                 /\ modCalls' = Drop(modCalls, call)
    /\ UNCHANGED <<packFiles, cfg, reqPath, resolved, session, io, decision,
                   strIn, patIn, strOut, fragVars, rendVars, provVars, loadVars,
                   dedupVars, workVars, modCache, modLock, provLock>>

\* self.cache.write().await returns the write guard
AcquireWrite(call) ==
    /\ modCalls[call].pc = "want_write"
    /\ CanWrite(modLock)
    /\ modLock' = RwLock(modLock.readers, Some(call))
    /\ modCalls' = [modCalls EXCEPT ![call].pc = "write"]
    /\ UNCHANGED <<packFiles, cfg, reqPath, resolved, session, io, decision,
                   strIn, patIn, strOut, fragVars, rendVars, provVars, loadVars,
                   dedupVars, workVars, modCache, modLog, provLock>>

\* .insert(..) under the write guard, which is dropped at the end of the
\* statement; the call goes on to Store::new with the module it compiled,
\* still in flight and with no lock
InsertUnderWrite(call) ==
    /\ modCalls[call].pc = "write"
    /\ LET path == modCalls[call].path
           component == Unwrap(modCalls[call].component)
       IN  /\ modCache' = ModInsert(modCache, path, component)
           /\ modLog' = Append(modLog, ModEvent("insert", call, path, TRUE, Some(component), NoneOpt))
    /\ modLock' = RwLock(modLock.readers, NoneOpt)
    /\ modCalls' = [modCalls EXCEPT ![call].pc = "store"]
    /\ UNCHANGED <<packFiles, cfg, reqPath, resolved, session, io, decision,
                   strIn, patIn, strOut, fragVars, rendVars, provVars, loadVars,
                   dedupVars, workVars, provLock>>


(***************************************************************************)
(* Specifications.                                                         *)
(***************************************************************************)
NoRequest ==
    /\ reqPath = NoneOpt
    /\ resolved = NoneOpt
    /\ session = NoneOpt
    /\ io = <<>>
    /\ decision = NoneOpt

\* no fragment injection in the behaviour
FragIdle ==
    /\ fragIn = [html |-> <<>>, targets |-> <<>>, outcomes |-> <<>>]
    /\ fragLog = <<>>
    /\ fragOut = NoneOpt

\* no renderer call in the behaviour
RendIdle ==
    /\ rendIn = [wit |-> FALSE, invoked |-> [ok |-> FALSE, value |-> <<>>, err |-> <<>>],
                 file |-> NoneOpt]
    /\ rendLog = <<>>
    /\ rendOut = NoneOpt
    /\ rendBy = ""

\* the provider as DistributorPackProvider::new builds it, no call made
ProvIdle ==
    /\ provCache = [key \in CacheKeys |-> NoneOpt]
    /\ provCalls = <<>>
    /\ provLog = <<>>
    /\ provLock = NoneOpt

\* the invoker as WasmtimeFragmentInvoker::new builds it, no call made
ModIdle ==
    /\ modCache = [path \in ComponentPaths |-> NoneOpt]
    /\ modCalls = <<>>
    /\ modLog = <<>>
    /\ modLock = RwLock({}, NoneOpt)

\* no pack loading in the behaviour
LoadIdle ==
    /\ loadIn = LoadInput("fs", "missing", <<>>, {}, 0)
    /\ loadCall = LoadCall("idle", "", <<>>, <<>>, 0)
    /\ loadOut = NoneOpt

\* no requirements to deduplicate in the behaviour
DedupIdle ==
    /\ dedupIn = <<>>
    /\ dedupOut = <<>>

\* no worker call in the behaviour
WorkIdle ==
    /\ workIn = [backend |-> "stub", retries |-> 0, backoff_base |-> 0, url_joins |-> TRUE,
                 tenant_ctx |-> TenantCtx("dev", "tenant", NoneOpt),
                 worker_id |-> "worker.echo", payload |-> "null"]
    /\ workCall = HttpLoop("done", 0, NoneOpt)
    /\ workLog = <<>>
    /\ workOut = NoneOpt

\* request handling for every tenant configuration
Init ==
    /\ packFiles \in PackFileSets
    /\ cfg = TenantGuiConfig_load(packFiles)
    /\ NoRequest
    /\ strIn = <<>>
    /\ patIn = <<>>
    /\ strOut = NoneOpt
    /\ FragIdle
    /\ RendIdle
    /\ ProvIdle
    /\ ModIdle
    /\ LoadIdle
    /\ DedupIdle
    /\ WorkIdle

Next == HandleRequest

Spec == Init /\ [][Next]_vars

\* characters of raw paths given to normalize_route
NormAlphabet == {"/", "a", " "}

\* normalize_route on every raw string
InitNormalize ==
    /\ packFiles = [auth |-> NoneOpt, features |-> <<>>]
    /\ cfg = TenantGuiConfig_load(packFiles)
    /\ NoRequest
    /\ strIn \in SeqsUpTo(NormAlphabet, MaxLen)
    /\ patIn = <<>>
    /\ strOut = NoneOpt
    /\ FragIdle
    /\ RendIdle
    /\ ProvIdle
    /\ ModIdle
    /\ LoadIdle
    /\ DedupIdle
    /\ WorkIdle

NextNormalize == ApplyNormalize

SpecNormalize == InitNormalize /\ [][NextNormalize]_vars

\* characters of request paths and of route patterns given to path_matches
PathAlphabet == {"/", "a", "b"}
PatternAlphabet == {"/", "a", "*"}

\* path_matches on every request path and pattern
InitMatch ==
    /\ packFiles = [auth |-> NoneOpt, features |-> <<>>]
    /\ cfg = TenantGuiConfig_load(packFiles)
    /\ NoRequest
    /\ strIn \in SeqsUpTo(PathAlphabet, MaxLen)
    /\ patIn \in SeqsUpTo(PatternAlphabet, MaxLen)
    /\ strOut = NoneOpt
    /\ FragIdle
    /\ RendIdle
    /\ ProvIdle
    /\ ModIdle
    /\ LoadIdle
    /\ DedupIdle
    /\ WorkIdle

NextMatch == ApplyMatch

SpecMatch == InitMatch /\ [][NextMatch]_vars

\* no routing request and no string operation in the behaviour
RoutingIdle ==
    /\ packFiles = [auth |-> NoneOpt, features |-> <<>>]
    /\ cfg = TenantGuiConfig_load(packFiles)
    /\ NoRequest
    /\ strIn = <<>>
    /\ patIn = <<>>
    /\ strOut = NoneOpt

\* inject_fragments on every page, binding list and renderer outcome
InitInject ==
    /\ RoutingIdle
    /\ \E n \in 0..MaxBindings :
          \E p \in Pages, s \in [1..n -> Selectors], o \in [1..n -> RenderOutcomes] :
              fragIn = [html |-> p, targets |-> TargetsOf(s), outcomes |-> o]
    /\ fragLog = <<>>
    /\ fragOut = NoneOpt
    /\ RendIdle
    /\ ProvIdle
    /\ ModIdle
    /\ LoadIdle
    /\ DedupIdle
    /\ WorkIdle

NextInject == InjectFragments

SpecInject == InitInject /\ [][NextInject]_vars

\* the renderers on every answer of the invoker and of the file system
InitRender ==
    /\ RoutingIdle
    /\ FragIdle
    /\ rendIn \in RenderInputs
    /\ rendLog = <<>>
    /\ rendOut = NoneOpt
    /\ rendBy = ""
    /\ ProvIdle
    /\ ModIdle
    /\ LoadIdle
    /\ DedupIdle
    /\ WorkIdle

NextRender == RenderWit \/ RenderComposite

SpecRender == InitRender /\ [][NextRender]_vars

\* concurrent calls of resolve and of clear_cache on one
\* DistributorPackProvider
InitResolve ==
    /\ RoutingIdle
    /\ FragIdle
    /\ RendIdle
    /\ ProvIdle
    /\ ModIdle
    /\ LoadIdle
    /\ DedupIdle
    /\ WorkIdle

NextResolve ==
    \/ ResolveStart
    \/ \E call \in DOMAIN provCalls : ResolveLookup(call)
    \/ \E call \in DOMAIN provCalls : ResolveRemote(call)
    \/ \E call \in DOMAIN provCalls : ResolveInsert(call)
    \/ ClearCache

SpecResolve == InitResolve /\ [][NextResolve]_vars

\* the same calls against a distributor that answers every resolution with
\* an internal artifact handle
InternalAnswers == { answer \in RemoteAnswers : answer.artifact = "DistributorInternal" }

NextInternal ==
    \/ ResolveStart
    \/ \E call \in DOMAIN provCalls : ResolveLookup(call)
    \/ \E call \in DOMAIN provCalls : \E answer \in InternalAnswers : ResolveAnswered(call, answer)
    \/ \E call \in DOMAIN provCalls : ResolveInsert(call)
    \/ ClearCache

SpecInternal == InitResolve /\ [][NextInternal]_vars

\* concurrent calls of render on one WasmtimeFragmentInvoker
InitInvoke ==
    /\ RoutingIdle
    /\ FragIdle
    /\ RendIdle
    /\ ProvIdle
    /\ ModIdle
    /\ LoadIdle
    /\ DedupIdle
    /\ WorkIdle

NextInvoke ==
    \/ InvokeStart
    \/ \E call \in DOMAIN modCalls : InvokeLookup(call)
    \/ \E call \in DOMAIN modCalls : InvokeCompile(call)
    \/ \E call \in DOMAIN modCalls : InvokeInsert(call)
    \/ \E call \in DOMAIN modCalls : InvokeStore(call)
    \/ \E call \in DOMAIN modCalls : InvokeRender(call)

SpecInvoke == InitInvoke /\ [][NextInvoke]_vars

\* the calls made so far on the provider and the invoker together
CallsMade == Count(provLog, "start") + Count(provLog, "clear") + Count(modLog, "start")

\* concurrent calls of render, each lock acquisition and each use of a
\* guard a step of its own
NextLock ==
    \/ InvokeStart
    \/ \E call \in DOMAIN modCalls : AcquireRead(call)
    \/ \E call \in DOMAIN modCalls : LookupUnderRead(call)
    \/ \E call \in DOMAIN modCalls : CompileOnMiss(call)
    \/ \E call \in DOMAIN modCalls : AcquireWrite(call)
    \/ \E call \in DOMAIN modCalls : InsertUnderWrite(call)
    \/ \E call \in DOMAIN modCalls : InvokeStore(call)
    \/ \E call \in DOMAIN modCalls : InvokeRender(call)

\* concurrent calls of resolve and of clear_cache, each lock acquisition
\* and each use of the guard a step of its own
NextMutex ==
    \/ ResolveStart
    \/ \E call \in DOMAIN provCalls : AcquireMutex(call)
    \/ \E call \in DOMAIN provCalls : LookupUnderLock(call)
    \/ \E call \in DOMAIN provCalls : ResolveRemote(call)
    \/ \E call \in DOMAIN provCalls : InsertUnderLock(call)
    \/ ClearUnderLock

\* requests that resolve and render concurrently, with their locks, and
\* can be abandoned wherever they await, MaxTogether calls in all
NextAbandon ==
    /\ \/ NextMutex
       \/ NextLock
       \/ \E call \in DOMAIN provCalls : AbandonResolve(call)
       \/ \E call \in DOMAIN modCalls : AbandonRender(call)
    /\ CallsMade' <= MaxTogether

SpecAbandon == InitInvoke /\ [][NextAbandon]_vars

\* a call in flight goes on: a step that waits for no lock, or a lock
\* acquisition that the lock grants
GoesOn ==
    \E call \in DOMAIN modCalls :
        \/ AcquireRead(call) \/ LookupUnderRead(call) \/ CompileOnMiss(call)
        \/ AcquireWrite(call) \/ InsertUnderWrite(call)
        \/ InvokeStore(call) \/ InvokeRender(call)

SpecLock == InitInvoke /\ [][NextLock]_vars

\* the runtime polls the tasks that can run: while some call in flight can
\* go on, some call does.  No order among the calls and no fairness of the
\* lock to its waiters is assumed
SpecLockFair == SpecLock /\ WF_vars(GoesOn)

\* the load operations for every tenant root of at most MaxPacks pack
\* directories, in every order of discovery; on a distributor provider
\* with none, one or all of the pack references, for every manifest at the
\* resolved root and every answer of the distributor, beside other
\* resolutions and clear_cache; and on another provider that answers with
\* packs that come with secret requirements
InitLoad ==
    /\ RoutingIdle
    /\ FragIdle
    /\ RendIdle
    /\ ProvIdle
    /\ ModIdle
    /\ DedupIdle
    /\ WorkIdle
    /\ loadCall = LoadCall("idle", "", <<>>, <<>>, 0)
    /\ loadOut = NoneOpt
    /\ \/ \E n \in 0..MaxPacks : \E packs \in [1..n -> ManifestFiles] :
              loadIn = LoadInput("fs", "listed", packs, {}, 0)
       \/ \E root \in {"missing", "unlistable"} :
              loadIn = LoadInput("fs", root, <<>>, {}, 0)
       \/ \E file \in ManifestFiles, packs \in PackReferences :
              loadIn = LoadInput("distributor", "remote", <<file>>, packs, 0)
       \/ \E file \in BesideFiles, packs \in BesideReferences, others \in 0..MaxBeside,
               before \in {NoneOpt} \cup { Some(kind) : kind \in BesideKinds } :
              /\ others + Len(before) > 0
              /\ loadIn = BesideInput(file, packs, others, before)
       \/ \E layout \in {Fail("provider")} \cup { Ok(GivenPack("GuiLayout", r)) : r \in PackRequirements },
               auth \in GivenOptional("GuiAuth"),
               skin \in {Ok(NoneOpt), Ok(Some(GivenPack("GuiSkin", <<>>)))},
               telemetry \in GivenOptional("GuiTelemetry"),
               features \in GivenFeatures :
                  loadIn = GivenInput([load_layout |-> layout, load_auth |-> auth,
                                       load_skin |-> skin, load_telemetry |-> telemetry,
                                       load_features |-> features])

NextLoad ==
    \/ LoadPacks
    \/ LoadTenant
    \/ LoadNext
    \/ LoadManifest
    \/ \E call \in DOMAIN provCalls : ResolveLookup(call)
    \/ \E call \in DOMAIN provCalls : ResolveRemote(call)
    \/ \E call \in DOMAIN provCalls : ResolveInsert(call)
    \/ ResolveBefore
    \/ ResolveBeside
    \/ ClearBeside

SpecLoad == InitLoad /\ [][NextLoad]_vars

\* dedup_requirements on every list of at most MaxReqs requirements
InitDedup ==
    /\ RoutingIdle
    /\ FragIdle
    /\ RendIdle
    /\ ProvIdle
    /\ ModIdle
    /\ LoadIdle
    /\ \E n \in 0..MaxReqs : dedupIn \in [1..n -> SecretRequirements]
    /\ dedupOut = <<>>
    /\ WorkIdle

NextDedup == ApplyDedup

SpecDedup == InitDedup /\ [][NextDedup]_vars

\* WorkerHost::invoke_worker for every request, with the stub backend and
\* with the HTTP backend for every retry count up to MaxRetries
InitWorker ==
    /\ RoutingIdle
    /\ FragIdle
    /\ RendIdle
    /\ ProvIdle
    /\ ModIdle
    /\ LoadIdle
    /\ DedupIdle
    /\ \E tenant_ctx \in TenantCtxs, worker_id \in WorkerIds, payload \in Payloads :
        \/ workIn = [backend |-> "stub", retries |-> 0, backoff_base |-> 0, url_joins |-> TRUE,
                     tenant_ctx |-> tenant_ctx, worker_id |-> worker_id, payload |-> payload]
        \/ \E retries \in 0..MaxRetries, backoff_base \in BackoffBases, url_joins \in BOOLEAN :
              workIn = [backend |-> "http", retries |-> retries, backoff_base |-> backoff_base,
                        url_joins |-> url_joins, tenant_ctx |-> tenant_ctx,
                        worker_id |-> worker_id, payload |-> payload]
    /\ workCall = HttpLoop("idle", 0, NoneOpt)
    /\ workLog = <<>>
    /\ workOut = NoneOpt

NextWorker == InvokeWorker \/ SendRequest \/ Backoff

SpecWorker == InitWorker /\ [][NextWorker]_vars

(***************************************************************************)
(* Vocabulary of the properties.                                           *)
(***************************************************************************)
\* a request has been handled
Handled == IsSome(decision)

\* the normalized path of the request handled
ReqNorm == normalize_route(Unwrap(reqPath))

\* the (feature pack, route) positions whose route matches the request
FeatureMatchSet ==
    UNION { { <<i, j>> : j \in { k \in DOMAIN cfg.features[i].manifest.routes :
                path_matches(ReqNorm, cfg.features[i].manifest.routes[k].path) } } :
            i \in DOMAIN cfg.features }

\* the auth-route positions whose route matches the request
AuthMatchSet ==
    IF IsSome(cfg.auth)
    THEN { j \in DOMAIN Unwrap(cfg.auth).manifest.routes :
             path_matches(ReqNorm, Unwrap(cfg.auth).manifest.routes[j].path) }
    ELSE {}

\* declaration order of (feature pack, route) positions
Before(m, n) == m[1] < n[1] \/ (m[1] = n[1] /\ m[2] < n[2])

\* the calls to fs::read_to_string made for the request
DocReads == { k \in DOMAIN io : io[k].call = "read_to_string" }

\* SessionManager::validate was called and returned Ok
ValidateOk == \E k \in DOMAIN io : io[k].call = "validate" /\ io[k].ok

\* a document read failed
ReadFailed == \E k \in DocReads : ~io[k].ok

(***************************************************************************)
(* C1 (as stated): for a route whose resolved `authenticated` flag is      *)
(* true, the result is Serve if and only if validation returned a session, *)
(* and when validation returned no session the result is Redirect and no   *)
(* document is read.                                                       *)
(***************************************************************************)
C1_AuthGateAsStated ==
    (Handled /\ IsSome(resolved) /\ Unwrap(resolved).authenticated) =>
        /\ (Unwrap(decision).kind = "Serve") <=> IsSome(session)
        /\ (ValidateOk /\ ~IsSome(session)) =>
              (Unwrap(decision).kind = "Redirect" /\ DocReads = {})

(***************************************************************************)
(* C1 (amended): for a route whose resolved `authenticated` flag is true,  *)
(* the result is Serve if and only if validation returned a session and    *)
(* the route's document could be read; the Serve carries that document,    *)
(* that route's fragment targets and the validated session.  When          *)
(* validation returns no session the result is Redirect, and the document  *)
(* is read only after validation returned a session.  When validation      *)
(* fails, or the document cannot be read, the result is that error.        *)
(***************************************************************************)
C1_AuthGate ==
    (Handled /\ IsSome(resolved) /\ Unwrap(resolved).authenticated) =>
        LET d == Unwrap(decision)
            r == Unwrap(resolved)
        IN  /\ (d.kind = "Serve") <=> (IsSome(session) /\ ~ReadFailed)
            /\ d.kind = "Serve" =>
                 /\ d.html = Some(FileContents(r.html_path))
                 /\ d.fragments = r.fragments
                 /\ d.session = session
            /\ (ValidateOk /\ ~IsSome(session)) => d.kind = "Redirect"
            /\ DocReads # {} => IsSome(session)
            /\ d.kind = "Redirect" => DocReads = {}
            /\ (~ValidateOk \/ ReadFailed) => d.kind = "Err"

\* an authenticated feature route served, with its fragment targets, to a
\* request that carries a valid session
C1_Witness ==
    /\ Handled
    /\ Unwrap(resolved).authenticated
    /\ Unwrap(decision).kind = "Serve"
    /\ Unwrap(decision).fragments # <<>>
    /\ IsSome(Unwrap(decision).session)

(***************************************************************************)
(* C2: when a feature route and an auth route both match the normalized    *)
(* path, the document and the `authenticated` flag returned are those of a *)
(* matching feature route, never those of the auth pack.                   *)
(***************************************************************************)
C2_FeatureOutranksAuth ==
    (Handled /\ FeatureMatchSet # {} /\ AuthMatchSet # {}) =>
        LET r == Unwrap(resolved) IN
        /\ r.source.kind = "Feature"
        /\ \E m \in FeatureMatchSet :
             LET feature == cfg.features[m[1]]
                 route == feature.manifest.routes[m[2]]
             IN  /\ r.html_path = PathJoin(feature.location.assets, route.html)
                 /\ r.authenticated = route.authenticated
        /\ \A j \in AuthMatchSet :
             r.html_path #
                PathJoin(Unwrap(cfg.auth).location.assets,
                         Unwrap(cfg.auth).manifest.routes[j].html)

\* a feature route and an auth route match the same path and disagree on
\* the authentication requirement
C2_Witness ==
    /\ Handled
    /\ FeatureMatchSet # {}
    /\ \E j \in AuthMatchSet :
         Unwrap(resolved).authenticated = Unwrap(cfg.auth).manifest.routes[j].public

(***************************************************************************)
(* C3: TenantGuiConfig::resolve_route returns a route for every            *)
(* configuration and path, so routing::resolve_route never returns         *)
(* NotFound: when it succeeds the decision is Serve or Redirect.           *)
(***************************************************************************)
C3_ResolutionTotal ==
    Handled =>
        /\ IsSome(resolved)
        /\ Unwrap(decision).kind # "NotFound"
        /\ Unwrap(decision).kind \in {"Serve", "Redirect", "Err"}

\* a path no feature route and no auth route matches is served, although
\* the tenant declares routes in both kinds of pack
C3_Witness ==
    /\ Handled
    /\ FeatureMatchSet = {} /\ AuthMatchSet = {}
    /\ cfg.features # <<>> /\ IsSome(cfg.auth)
    /\ Unwrap(decision).kind = "Serve"

(***************************************************************************)
(* C4: a pattern P/* matches a normalized path only when the path equals P *)
(* or continues with "/" after P.  Stated for the patterns whose P is      *)
(* itself a normalized route that does not end with a slash, such as       *)
(* "/docs/*".                                                              *)
(***************************************************************************)
C4_SegmentBoundary ==
    LET P == SubSeq(patIn, 1, Len(patIn) - 2)
        path == normalize_route(strIn)
    IN  ( /\ IsSome(strOut)
          /\ EndsWith(patIn, <<"/", "*">>)
          /\ normalize_route(P) = P
          /\ ~EndsWith(P, <<"/">>)
          /\ Unwrap(strOut) = TRUE )
        => (path = P \/ StartsWith(path, P \o <<"/">>))

(***************************************************************************)
(* C5: when several feature routes match, the route returned is the one at *)
(* the smallest (feature-pack index, route index) in lexicographic order.  *)
(***************************************************************************)
C5_FirstMatchWins ==
    (Handled /\ FeatureMatchSet # {}) =>
        \E m \in FeatureMatchSet :
            /\ \A n \in FeatureMatchSet : n = m \/ Before(m, n)
            /\ LET feature == cfg.features[m[1]]
                   route == feature.manifest.routes[m[2]]
                   r == Unwrap(resolved)
               IN  /\ r.source = [kind |-> "Feature", pack |-> feature.location.root]
                   /\ r.html_path = PathJoin(feature.location.assets, route.html)
                   /\ r.authenticated = route.authenticated

\* two routes of one pack and a route of a later pack all match the request
C5_Witness ==
    /\ Handled
    /\ \E m, n, o \in FeatureMatchSet : m[1] = n[1] /\ m[2] < n[2] /\ m[1] < o[1]

(***************************************************************************)
(* C6: normalize_route is idempotent, and its result begins with exactly   *)
(* one slash and holds no two consecutive slashes.                         *)
(***************************************************************************)
C6_NormalizeIdempotent ==
    IsSome(strOut) =>
        LET n == Unwrap(strOut) IN
        /\ normalize_route(n) = n
        /\ Len(n) >= 1 /\ n[1] = "/"
        /\ \A k \in 1..(Len(n) - 1) : ~(n[k] = "/" /\ n[k + 1] = "/")

\* a raw path with leading whitespace and a run of slashes was normalized
C6_Witness ==
    /\ IsSome(strOut)
    /\ Len(strIn) >= 3
    /\ strIn[1] = " " /\ strIn[2] = "/" /\ strIn[3] = "/"
    /\ Unwrap(strOut) # strIn

(***************************************************************************)
(* C7: on a feature match the fragment targets are exactly the bindings of *)
(* the matched pack, in manifest order, each with that pack's asset root;  *)
(* no binding and no asset root of another pack appears.                   *)
(***************************************************************************)
C7_FragmentsOfMatchedPack ==
    (Handled /\ FeatureMatchSet # {}) =>
        \E m \in FeatureMatchSet :
            /\ \A n \in FeatureMatchSet : n = m \/ Before(m, n)
            /\ LET feature == cfg.features[m[1]]
                   targets == Unwrap(resolved).fragments
               IN  /\ Len(targets) = Len(feature.manifest.fragments)
                   /\ \A k \in DOMAIN targets :
                        /\ targets[k].binding = feature.manifest.fragments[k]
                        /\ targets[k].assets_root = feature.location.assets
                   /\ \A i \in DOMAIN cfg.features, k \in DOMAIN targets :
                        i # m[1] =>
                          /\ targets[k].assets_root # cfg.features[i].location.assets
                          /\ \A b \in DOMAIN cfg.features[i].manifest.fragments :
                               targets[k].binding.id #
                                 cfg.features[i].manifest.fragments[b].id
                   /\ \A k \in DOMAIN targets :
                        targets[k].assets_root # cfg.layout.location.assets

\* the matched pack declares two bindings and another pack declares one
C7_Witness ==
    /\ Handled
    /\ FeatureMatchSet # {}
    /\ Len(Unwrap(resolved).fragments) >= 2
    /\ \E i \in DOMAIN cfg.features :
         /\ cfg.features[i].manifest.fragments # <<>>
         /\ cfg.features[i].location.assets # Unwrap(resolved).fragments[1].assets_root

(***************************************************************************)
(* C8: an auth route is returned only when no feature route matches, and   *)
(* whenever no feature route but an auth route matches; the route returned *)
(* has `authenticated` equal to the negation of the first matching auth    *)
(* route's `public` flag, which is false for a manifest route that leaves  *)
(* `public` out, and it has no fragment targets.                           *)
(***************************************************************************)
C8_AuthRoutesAfterFeatures ==
    Handled =>
        LET r == Unwrap(resolved) IN
        /\ (r.source.kind = "Auth") <=> (FeatureMatchSet = {} /\ AuthMatchSet # {})
        /\ r.source.kind = "Auth" =>
             \E j \in AuthMatchSet :
                /\ \A k \in AuthMatchSet : j <= k
                /\ r.authenticated = ~Unwrap(cfg.auth).manifest.routes[j].public
                /\ ("public" \notin DOMAIN Unwrap(packFiles.auth).routes[j])
                      => r.authenticated
                /\ ("public" \in DOMAIN Unwrap(packFiles.auth).routes[j])
                      => r.authenticated = ~Unwrap(packFiles.auth).routes[j].public
                /\ r.html_path =
                     PathJoin(Unwrap(cfg.auth).location.assets,
                              Unwrap(cfg.auth).manifest.routes[j].html)
                /\ r.fragments = <<>>

\* an auth route that leaves `public` out is returned, while the tenant has
\* a feature pack whose routes do not match the request
C8_Witness ==
    /\ Handled
    /\ Unwrap(resolved).source.kind = "Auth"
    /\ \E i \in DOMAIN cfg.features : cfg.features[i].manifest.routes # <<>>
    /\ \E j \in AuthMatchSet :
         /\ \A k \in AuthMatchSet : j <= k
         /\ "public" \notin DOMAIN Unwrap(packFiles.auth).routes[j]

(***************************************************************************)
(* C9: when no feature route and no auth route matches, the route returned *)
(* is the layout's entry document (the layout's asset root joined with     *)
(* entrypoint_html), unauthenticated, without fragment targets.            *)
(***************************************************************************)
C9_LayoutFallback ==
    (Handled /\ FeatureMatchSet = {} /\ AuthMatchSet = {}) =>
        LET r == Unwrap(resolved) IN
        /\ r.source.kind = "Layout"
        /\ r.html_path = cfg.layout.location.assets \o
                            cfg.layout.manifest.layout.entrypoint_html
        /\ r.html_path = <<"/", "layout", "gui", "assets", "index.html">>
        /\ r.authenticated = FALSE
        /\ r.fragments = <<>>

\* the fallback is taken for a tenant that declares feature and auth routes
\* and whose feature packs declare fragment bindings
C9_Witness ==
    /\ Handled
    /\ FeatureMatchSet = {} /\ AuthMatchSet = {}
    /\ Unwrap(resolved).source.kind = "Layout"
    /\ IsSome(cfg.auth) /\ Unwrap(cfg.auth).manifest.routes # <<>>
    /\ \E i \in DOMAIN cfg.features :
         cfg.features[i].manifest.routes # <<>> /\ cfg.features[i].manifest.fragments # <<>>

(***************************************************************************)
(* C10: the Redirect target is the path of the first route of the auth     *)
(* manifest, or "/login" when the tenant has no auth pack or its auth pack *)
(* declares no routes; a Redirect is returned exactly for a request without *)
(* a session to a route that requires one.                                 *)
(***************************************************************************)
C10_RedirectTarget ==
    Handled =>
        LET d == Unwrap(decision) IN
        /\ d.kind = "Redirect" =>
             /\ Unwrap(resolved).authenticated /\ ~IsSome(session)
             /\ d.target =
                  IF IsSome(packFiles.auth) /\ Unwrap(packFiles.auth).routes # <<>>
                  THEN Head(Unwrap(packFiles.auth).routes).path
                  ELSE <<"/", "l", "o", "g", "i", "n">>
        /\ (Unwrap(resolved).authenticated /\ ValidateOk /\ ~IsSome(session))
             => d.kind = "Redirect"

\* a redirect for a tenant whose auth manifest declares two routes with
\* different paths, to a target other than the requested path
C10_Witness ==
    /\ Handled
    /\ Unwrap(decision).kind = "Redirect"
    /\ IsSome(cfg.auth)
    /\ Len(Unwrap(cfg.auth).manifest.routes) >= 2
    /\ Unwrap(cfg.auth).manifest.routes[1].path # Unwrap(cfg.auth).manifest.routes[2].path
    /\ Unwrap(decision).target # ReqNorm

(***************************************************************************)
(* Vocabulary of the fragment properties.                                  *)
(***************************************************************************)
\* inject_fragments has returned
Injected == IsSome(fragOut)

\* the positions of the bindings given to inject_fragments
Bindings == DOMAIN fragIn.targets

BindingId(k) == fragIn.targets[k].binding.id
BindingSelector(k) == fragIn.targets[k].binding.selector

\* what the renderer returned for the k-th binding
GaveMarkup(k) == fragIn.outcomes[k].ok /\ IsSome(fragIn.outcomes[k].value)
GaveNothing(k) == fragIn.outcomes[k].ok /\ ~IsSome(fragIn.outcomes[k].value)
GaveMissingSecrets(k) == ~fragIn.outcomes[k].ok /\ fragIn.outcomes[k].err = "MissingSecrets"
GaveGenericError(k) == ~fragIn.outcomes[k].ok /\ fragIn.outcomes[k].err # "MissingSecrets"

\* the document inject_fragments returned
OutDoc == Unwrap(fragOut).value

\* the input page as the parser reads it
InDoc == parse_html(fragIn.html)

\* the calls of one kind in the log of inject_fragments
CallsOf(log, what) == SelectSeq(log, LAMBDA c : c.call = what)

\* the injections of the log made for bindings other than id
InjectionsBut(log, id) ==
    SelectSeq(log, LAMBDA c : c.call = "replace_selector_inner_html" /\ c.binding # id)

\* the log holds an injection of this markup for the k-th binding
InjectedFor(k, html) ==
    \E n \in DOMAIN fragLog :
        fragLog[n] = [call |-> "replace_selector_inner_html", binding |-> BindingId(k),
                      html |-> html]

\* the error element with the given text, tagged with the k-th binding's id
PlaceholderOf(k, text) ==
    <<[t |-> "open", tag |-> "div", id |-> "", class |-> "fragment-error",
       data |-> BindingId(k)],
      [t |-> "text", tag |-> text, id |-> "", class |-> "", data |-> ""],
      [t |-> "close", tag |-> "div", id |-> "", class |-> "", data |-> ""]>>

\* the k-th binding is the last one something is injected for
LastInjected(k) ==
    /\ ~GaveNothing(k)
    /\ \A j \in Bindings : j > k => GaveNothing(j)

\* the k-th binding's selector matches an element of the document
Matches(document, k) ==
    /\ SelectorParses(BindingSelector(k))
    /\ select(document, BindingSelector(k)) # {}

\* the children of the first element the k-th binding's selector matches
TargetChildren(document, k) ==
    Children(document, Min(select(document, BindingSelector(k))))

\* a sequence without its k-th element
Without(s, k) == SubSeq(s, 1, k - 1) \o SubSeq(s, k + 1, Len(s))

\* the run of inject_fragments on the same page without the k-th binding
RunWithout(k) ==
    inject_fragments(fragIn.html, Without(fragIn.targets, k), Without(fragIn.outcomes, k))

(***************************************************************************)
(* Claims on the fragment pipeline.                                        *)
(***************************************************************************)
\* C11: inject_fragments returns Ok with a document whatever the renderer
\* returned for each binding.  For a binding whose renderer failed with a
\* generic error the element with the text "fragment render failed", tagged
\* with the binding's id, is injected at the binding's selector (and is the
\* content of its target when no later injection follows); every binding is
\* rendered, and the markup of every other binding is injected.
C11_GenericErrorPlaceholder ==
    Injected =>
        /\ Unwrap(fragOut).ok
        /\ Bindings # {} =>
              /\ CallsOf(fragLog, "render_fragment")
                     = [k \in Bindings |->
                          [call |-> "render_fragment", binding |-> BindingId(k), html |-> <<>>]]
              /\ OutDoc = parse_html(OutDoc)
        /\ \A k \in Bindings :
              /\ GaveGenericError(k) =>
                    /\ InjectedFor(k, PlaceholderOf(k, "fragment render failed"))
                    /\ LastInjected(k) /\ Matches(OutDoc, k) =>
                          TargetChildren(OutDoc, k) = PlaceholderOf(k, "fragment render failed")
              /\ GaveMarkup(k) => InjectedFor(k, Unwrap(fragIn.outcomes[k].value))

C11_Witness ==
    /\ Injected
    /\ \E k, j \in Bindings :
          /\ GaveGenericError(k) /\ GaveMarkup(j) /\ j < k
          /\ Matches(InDoc, j) /\ Matches(InDoc, k)
          /\ Matches(OutDoc, j) /\ Matches(OutDoc, k)
          /\ TargetChildren(OutDoc, k) = PlaceholderOf(k, "fragment render failed")
          /\ TargetChildren(OutDoc, j) = FragmentNodes(Unwrap(fragIn.outcomes[j].value))

\* C12: for a binding whose renderer reported missing secrets the element
\* with the text "missing secrets for fragment", tagged with the binding's
\* id, is injected at the binding's selector (and is the content of its
\* target when no later injection follows); the markup injected for the
\* other bindings is what is injected for them when the failing binding is
\* not in the list.
C12_MissingSecretsPlaceholder ==
    Injected =>
        \A k \in Bindings :
            GaveMissingSecrets(k) =>
                /\ InjectedFor(k, PlaceholderOf(k, "missing secrets for fragment"))
                /\ LastInjected(k) /\ Matches(OutDoc, k) =>
                      TargetChildren(OutDoc, k) = PlaceholderOf(k, "missing secrets for fragment")
                /\ InjectionsBut(fragLog, BindingId(k))
                       = CallsOf(RunWithout(k).calls, "replace_selector_inner_html")

C12_Witness ==
    /\ Injected
    /\ \E k, j \in Bindings :
          /\ GaveMissingSecrets(k) /\ GaveMarkup(j) /\ k < j
          /\ Matches(InDoc, j) /\ Matches(InDoc, k)
          /\ Matches(OutDoc, j) /\ Matches(OutDoc, k)
          /\ TargetChildren(OutDoc, k) = PlaceholderOf(k, "missing secrets for fragment")
          /\ TargetChildren(OutDoc, j) = FragmentNodes(Unwrap(fragIn.outcomes[j].value))

\* the k-th binding is the only one something is injected for
OnlyInjected(k) ==
    /\ ~GaveNothing(k)
    /\ \A j \in Bindings : j # k => GaveNothing(j)

\* the markup injected for the k-th binding
InjectedHtml(k) ==
    (CHOOSE c \in { fragLog[n] : n \in DOMAIN fragLog } :
        c.call = "replace_selector_inner_html" /\ c.binding = BindingId(k)).html

\* the element starting at position p with everything in it
Subtree(document, p) == SubSeq(document, p, MatchingClose(document, p, 0))

\* the first element of the input page the k-th binding's selector matches,
\* its end, and the other elements the selector matches
FirstMatch(k) == Min(select(InDoc, BindingSelector(k)))
FirstMatchEnd(k) == MatchingClose(InDoc, FirstMatch(k), 0)
OtherMatches(k) == select(InDoc, BindingSelector(k)) \ {FirstMatch(k)}

\* the element at position p of the input page is in the output as it was,
\* behind the replaced children
Unchanged(k, p) ==
    LET q == p + Len(OutDoc) - Len(InDoc)
    IN  /\ p > FirstMatchEnd(k)
        /\ q \in DOMAIN OutDoc
        /\ OutDoc[q] = InDoc[p]
        /\ Subtree(OutDoc, q) = Subtree(InDoc, p)

\* C13 as stated: after an injection the children of the first matching
\* element are exactly the nodes of the markup, and every other element the
\* selector matches is left unchanged.
C13_ReplacesFirstMatchAsStated ==
    Injected =>
        \A k \in Bindings :
            OnlyInjected(k) /\ Matches(InDoc, k) =>
                /\ TargetChildren(OutDoc, k) = FragmentNodes(InjectedHtml(k))
                /\ \A p \in OtherMatches(k) : Unchanged(k, p)

\* C13: after an injection the children of the first matching element are
\* exactly the nodes of the markup and none of its previous children remain
\* (the test's page and markup give the test's document); every other
\* element the selector matches that is not inside the first one is left
\* unchanged.
C13_ReplacesFirstMatch ==
    Injected =>
        \A k \in Bindings :
            OnlyInjected(k) /\ Matches(InDoc, k) =>
                /\ FirstMatch(k) = Min(select(OutDoc, BindingSelector(k)))
                /\ TargetChildren(OutDoc, k) = FragmentNodes(InjectedHtml(k))
                /\ SubSeq(OutDoc, 1, FirstMatch(k)) = SubSeq(InDoc, 1, FirstMatch(k))
                /\ \A p \in OtherMatches(k) : p > FirstMatchEnd(k) => Unchanged(k, p)
                /\ fragIn.html = TestPage /\ InjectedHtml(k) = TestMarkup =>
                      OutDoc = <<OpenTag("html", "", "", ""), OpenTag("head", "", "", ""),
                                 CloseTag("head"), OpenTag("body", "", "", ""),
                                 OpenTag("div", "target", "", ""),
                                 OpenTag("span", "", "injected", ""), Text("ok"),
                                 CloseTag("span"), CloseTag("div"),
                                 CloseTag("body"), CloseTag("html")>>

C13_Witness ==
    /\ Injected
    /\ \E k \in Bindings :
          /\ OnlyInjected(k) /\ Matches(InDoc, k)
          /\ \E p \in OtherMatches(k) : Unchanged(k, p)
          /\ InjectedHtml(k) = TestMarkup
          /\ TargetChildren(InDoc, k) # <<>>
          /\ TargetChildren(OutDoc, k) = TestMarkup

\* nothing that is injected has a selector matching an element of the page
NothingMatches ==
    \A k \in Bindings :
        ~GaveNothing(k) => SelectorParses(BindingSelector(k)) /\ ~Matches(InDoc, k)

\* C14 as stated: when the selector of a rendered binding matches no element
\* the output is byte-identical to the input page, for every input page.
C14_NoMatchIdenticalAsStated ==
    Injected /\ Bindings # {} /\ NothingMatches /\ (\E k \in Bindings : ~GaveNothing(k))
        => OutDoc = fragIn.html

\* C14: when the selector of a rendered binding matches no element the
\* output is the serialization of the parsed input page: it has the html,
\* head and body elements and every element closed, and is byte-identical
\* to the input exactly when the input is the serialization of its own parse.
C14_NoMatchIdentical ==
    Injected /\ Bindings # {} /\ NothingMatches /\ (\E k \in Bindings : ~GaveNothing(k))
        => /\ OutDoc = to_string(parse_html(fragIn.html))
           /\ SubSeq(OutDoc, 1, 4) = <<OpenTag("html", "", "", ""), OpenTag("head", "", "", ""),
                                       CloseTag("head"), OpenTag("body", "", "", "")>>
           /\ MatchingClose(OutDoc, 1, 0) = Len(OutDoc)
           /\ OutDoc = fragIn.html <=> fragIn.html = to_string(parse_html(fragIn.html))

C14_Witness ==
    /\ Injected /\ Bindings # {} /\ NothingMatches
    /\ \E k \in Bindings : GaveMarkup(k)
    /\ OutDoc = fragIn.html

\* C15: with an empty binding list inject_fragments returns the input page
\* itself; it calls no renderer and does not parse the page.
C15_EmptyBindings ==
    Injected /\ Bindings = {} =>
        /\ Unwrap(fragOut) = [ok |-> TRUE, value |-> fragIn.html, err |-> ""]
        /\ fragLog = <<>>

C15_Witness ==
    /\ Injected /\ Bindings = {}
    /\ OutDoc = fragIn.html
    /\ fragIn.html # parse_html(fragIn.html)

\* C16: for a binding whose renderer returned Ok(None) nothing is injected
\* and no placeholder is produced: the output is that of the same page
\* without the binding (when other bindings remain), and when no binding of
\* the page rendered anything every element keeps its children.
C16_NoOpinionSkipped ==
    Injected =>
        \A k \in Bindings :
            GaveNothing(k) =>
                /\ \A n \in DOMAIN fragLog :
                      fragLog[n].call = "replace_selector_inner_html"
                          => fragLog[n].binding # BindingId(k)
                /\ \A n \in DOMAIN OutDoc : OutDoc[n].data # BindingId(k)
                /\ Bindings # {k} => OutDoc = RunWithout(k).result.value
                /\ (\A j \in Bindings : GaveNothing(j)) =>
                      /\ OutDoc = InDoc
                      /\ Matches(InDoc, k) =>
                            TargetChildren(OutDoc, k) = TargetChildren(InDoc, k)

C16_Witness ==
    /\ Injected
    /\ \E k, j \in Bindings :
          /\ GaveNothing(k) /\ GaveMarkup(j)
          /\ BindingSelector(k) # BindingSelector(j)
          /\ Matches(InDoc, k) /\ Matches(OutDoc, k)
          /\ TargetChildren(InDoc, k) # <<>>
          /\ TargetChildren(OutDoc, k) = TargetChildren(InDoc, k)
          /\ OutDoc # InDoc

\* the position in the binding list of the binding with this id
PositionOf(id) == CHOOSE k \in Bindings : BindingId(k) = id

\* C19: with bindings, every binding is rendered, in binding order, before
\* the page is parsed; the page is parsed once; the injections follow, in
\* binding order, one for each binding that gave markup or failed.  The
\* content of an element is that of the last injection made into it: when
\* the selector of the last injecting binding matches, its target holds the
\* nodes of that binding's markup, whatever was injected there before.
C19_BindingOrder ==
    Injected /\ Bindings # {} =>
        LET renders == CallsOf(fragLog, "render_fragment")
            injects == CallsOf(fragLog, "replace_selector_inner_html")
        IN  /\ fragLog = renders \o <<[call |-> "parse_html", binding |-> "", html |-> <<>>]>>
                             \o injects
            /\ renders = [k \in Bindings |->
                            [call |-> "render_fragment", binding |-> BindingId(k), html |-> <<>>]]
            /\ \A m, n \in DOMAIN injects :
                  m < n => PositionOf(injects[m].binding) < PositionOf(injects[n].binding)
            /\ { injects[n].binding : n \in DOMAIN injects }
                   = { BindingId(k) : k \in { j \in Bindings : ~GaveNothing(j) } }
            /\ \A k \in Bindings :
                  LastInjected(k) /\ Matches(OutDoc, k) =>
                      TargetChildren(OutDoc, k) = FragmentNodes(InjectedHtml(k))

C19_Witness ==
    /\ Injected
    /\ \E j, k \in Bindings :
          /\ j < k /\ GaveMarkup(j) /\ GaveMarkup(k) /\ LastInjected(k)
          /\ Matches(InDoc, j) /\ Matches(InDoc, k)
          /\ FirstMatch(j) = FirstMatch(k)
          /\ fragIn.outcomes[j] # fragIn.outcomes[k]
          /\ TargetChildren(OutDoc, k) = FragmentNodes(Unwrap(fragIn.outcomes[k].value))
          /\ TargetChildren(OutDoc, k) # FragmentNodes(Unwrap(fragIn.outcomes[j].value))

(***************************************************************************)
(* Vocabulary of the renderer properties.                                  *)
(***************************************************************************)
\* a renderer has returned
Rendered == IsSome(rendOut)

\* the invoker failed, and its error string holds "missing_secrets"
InvokerMissingSecrets ==
    /\ ~rendIn.invoked.ok
    /\ \E i \in DOMAIN rendIn.invoked.err :
          /\ i + 2 \in DOMAIN rendIn.invoked.err
          /\ rendIn.invoked.err[i] = "missing"
          /\ rendIn.invoked.err[i + 1] = "_"
          /\ rendIn.invoked.err[i + 2] = "secrets"

\* the invoker failed with any other error string
InvokerOtherError == ~rendIn.invoked.ok /\ ~InvokerMissingSecrets

\* the file renderer was invoked
FileRead == \E n \in DOMAIN rendLog : rendLog[n] = "read_to_string"

\* results of a renderer
MarkupResult(html) == [ok |-> TRUE, value |-> <<html>>, err |-> ""]
NoOpinion == [ok |-> TRUE, value |-> <<>>, err |-> ""]
MissingSecretsError == [ok |-> FALSE, value |-> <<>>, err |-> "MissingSecrets"]

(***************************************************************************)
(* Claims on the renderers.                                                *)
(***************************************************************************)
\* C17: the composite renderer invokes the file renderer exactly when it has
\* no sandboxed-module renderer or that renderer returned no opinion, and
\* then returns the file renderer's result.  Markup from the module renderer
\* is the result and the file is not read; a missing-secrets error from it
\* is returned and the file is not read.
C17_CompositeFallback ==
    Rendered /\ rendBy = "composite" =>
        /\ FileRead <=> (~rendIn.wit \/ InvokerOtherError)
        /\ FileRead =>
              Unwrap(rendOut) = IF IsSome(rendIn.file) THEN MarkupResult(Unwrap(rendIn.file))
                                                       ELSE NoOpinion
        /\ rendIn.wit /\ rendIn.invoked.ok =>
              Unwrap(rendOut) = MarkupResult(rendIn.invoked.value) /\ ~FileRead
        /\ rendIn.wit /\ InvokerMissingSecrets =>
              Unwrap(rendOut) = MissingSecretsError /\ ~FileRead
        /\ rendLog = (IF rendIn.wit THEN <<"invoker.render">> ELSE <<>>)
                         \o (IF FileRead THEN <<"read_to_string">> ELSE <<>>)

C17_Witness ==
    /\ Rendered /\ rendBy = "composite"
    /\ rendIn.wit /\ InvokerOtherError /\ rendIn.invoked.err # <<>>
    /\ IsSome(rendIn.file)
    /\ rendLog = <<"invoker.render", "read_to_string">>
    /\ Unwrap(rendOut) = MarkupResult(Unwrap(rendIn.file))

\* C18: the sandboxed-module renderer returns the invoker's markup when the
\* invoker succeeds, a missing-secrets error when the invoker's error string
\* contains "missing_secrets", and no opinion for every other error string;
\* it never returns a generic renderer error.
C18_WitClassifiesFailures ==
    Rendered /\ rendBy = "wit" =>
        /\ rendIn.invoked.ok => Unwrap(rendOut) = MarkupResult(rendIn.invoked.value)
        /\ InvokerMissingSecrets => Unwrap(rendOut) = MissingSecretsError
        /\ InvokerOtherError => Unwrap(rendOut) = NoOpinion
        /\ Unwrap(rendOut).err \notin {"Renderer", "Html"}
        /\ rendLog = <<"invoker.render">>

C18_Witness ==
    /\ Rendered /\ rendBy = "wit"
    /\ InvokerMissingSecrets
    /\ Len(rendIn.invoked.err) > 3
    /\ Unwrap(rendOut) = MissingSecretsError

(***************************************************************************)
(* Vocabulary of the provider properties.                                  *)
(***************************************************************************)
\* the calls of resolve made so far
Calls == { provLog[n].call : n \in { m \in DOMAIN provLog : provLog[m].ev = "start" } }

\* where in the log a call started and returned
StartPos(c) == CHOOSE n \in DOMAIN provLog : provLog[n].ev = "start" /\ provLog[n].call = c
HasReturned(c) == \E n \in DOMAIN provLog : provLog[n].ev = "return" /\ provLog[n].call = c
ReturnPos(c) == CHOOSE n \in DOMAIN provLog : provLog[n].ev = "return" /\ provLog[n].call = c

KeyOf(c) == provLog[StartPos(c)].key

\* the call returned Ok(Some(path))
ReturnedPath(c) ==
    HasReturned(c) /\ provLog[ReturnPos(c)].ok /\ IsSome(provLog[ReturnPos(c)].path)

\* the remote resolutions a call made
RemoteCalls(c) ==
    Cardinality({ n \in DOMAIN provLog : provLog[n].ev = "remote" /\ provLog[n].call = c })

\* clear_cache ran between two positions of the log
ClearedBetween(i, j) == \E n \in DOMAIN provLog : i < n /\ n < j /\ provLog[n].ev = "clear"

\* a path was returned for the key between two positions of the log
PathReturnedBetween(key, i, j) ==
    \E n \in DOMAIN provLog :
        /\ i < n /\ n < j
        /\ provLog[n].ev = "return" /\ provLog[n].key = key
        /\ provLog[n].ok /\ IsSome(provLog[n].path)

\* no other call for the same key is in flight at any time from the start of
\* call a to the return of call b
Undisturbed(a, b) ==
    \A c \in Calls \ {a, b} :
        KeyOf(c) = KeyOf(a) =>
            \/ HasReturned(c) /\ ReturnPos(c) < StartPos(a)
            \/ StartPos(c) > ReturnPos(b)

NoClearSince(i) == \A n \in DOMAIN provLog : n > i => provLog[n].ev # "clear"

\* C21 (as stated): resolutions of the same (tenant, kind) that overlap in
\* time, with no clear_cache since the earlier one started, make at most one
\* remote call between them and return the same path.  (Stated at the return
\* of the later one, the last event of the log.)
C21_OneRemoteCallAsStated ==
    provLog # <<>> /\ provLog[Len(provLog)].ev = "return" =>
        LET b == provLog[Len(provLog)].call
        IN  \A a \in Calls \ {b} :
                /\ ReturnedPath(a) /\ ReturnedPath(b)
                /\ KeyOf(a) = KeyOf(b)
                /\ ReturnPos(a) > StartPos(b)
                /\ NoClearSince(Min({StartPos(a), StartPos(b)}))
                => /\ RemoteCalls(a) + RemoteCalls(b) <= 1
                   /\ provLog[ReturnPos(a)].path = provLog[ReturnPos(b)].path

\* C22 (as stated): a resolution that starts after a clear_cache and is
\* served from the cache returns a path that a remote resolution of its key
\* produced after that clear_cache.  (Stated at the return of the
\* resolution, the last event of the log.)
C22_ClearIsBarrierAsStated ==
    provLog # <<>> /\ provLog[Len(provLog)].ev = "return" =>
        LET b == provLog[Len(provLog)].call
        IN  \A n \in DOMAIN provLog :
                /\ provLog[n].ev = "clear" /\ n < StartPos(b)
                /\ ReturnedPath(b)
                /\ RemoteCalls(b) = 0
                => \E m \in DOMAIN provLog :
                       /\ m > n
                       /\ provLog[m].ev = "remote"
                       /\ provLog[m].key = KeyOf(b)
                       /\ provLog[m].path = provLog[Len(provLog)].path

\* the last event of the log, when there is one
LastEvent == provLog[Len(provLog)]

\* C27: against a distributor that answers with internal handles, a remote
\* resolution succeeds only with the path of a handle that is an existing
\* local path, and that path is what the call then returns; with any other
\* handle the call returns an error and no path right after the remote
\* resolution, and the cache holds nothing but paths of successful
\* resolutions of the key.
C27_InternalHandle ==
    /\ provLog # <<>> /\ LastEvent.ev = "remote" /\ LastEvent.ok =>
           /\ \E answer \in InternalAnswers :
                  answer.usable /\ LastEvent.path = Some(answer.path)
           /\ provCalls[LastEvent.call] = InFlight("insert", LastEvent.key, Unwrap(LastEvent.path))
    /\ provLog # <<>> /\ LastEvent.ev = "return" /\ RemoteCalls(LastEvent.call) = 1 =>
           LET remote == CHOOSE n \in DOMAIN provLog :
                              provLog[n].ev = "remote" /\ provLog[n].call = LastEvent.call
           IN  IF provLog[remote].ok
               THEN LastEvent.ok /\ LastEvent.path = provLog[remote].path
               ELSE /\ remote = Len(provLog) - 1
                    /\ ~LastEvent.ok /\ LastEvent.path = NoneOpt
    /\ \A key \in CacheKeys :
           IsSome(provCache[key]) =>
               \E n \in DOMAIN provLog :
                   /\ provLog[n].ev = "remote" /\ provLog[n].ok
                   /\ provLog[n].key = key /\ provLog[n].path = provCache[key]

\* a call got a handle that is no local path and failed, the cache empty;
\* the call before it got a usable handle
C27_Witness ==
    /\ Len(provLog) >= 2
    /\ LastEvent.ev = "return" /\ ~LastEvent.ok
    /\ provLog[Len(provLog) - 1].ev = "remote" /\ ~provLog[Len(provLog) - 1].ok
    /\ \A key \in CacheKeys : provCache[key] = NoneOpt
    /\ \E n \in DOMAIN provLog :
           provLog[n].ev = "return" /\ provLog[n].path = Some(<<"/", "packs", "v1">>)

(***************************************************************************)
(* Vocabulary of the invoker properties.                                   *)
(***************************************************************************)
\* the calls of render made so far
Renders == { modLog[n].call : n \in { m \in DOMAIN modLog : modLog[m].ev = "start" } }

\* whether and where the log holds an event of one kind of a call
ModHas(c, ev) == \E n \in DOMAIN modLog : modLog[n].ev = ev /\ modLog[n].call = c
ModPos(c, ev) == CHOOSE n \in DOMAIN modLog : modLog[n].ev = ev /\ modLog[n].call = c

ModPath(c) == modLog[ModPos(c, "start")].path

\* the inserts of a path before a position of the log
InsertsBefore(path, i) ==
    { n \in DOMAIN modLog : n < i /\ modLog[n].ev = "insert" /\ modLog[n].path = path }

Max(S) == CHOOSE x \in S : \A y \in S : x >= y

(***************************************************************************)
(* Claims on the compiled-module cache.                                    *)
(***************************************************************************)
\* the module a call in flight holds or, once it ended, the module it ended
\* with
HeldModule(c) ==
    IF c \in DOMAIN modCalls THEN modCalls[c].component
    ELSE IF ModHas(c, "finish") THEN modLog[ModPos(c, "finish")].component
    ELSE NoneOpt

\* the inserts of a path from the last one before position i of the log on
InsertsSince(path, i) ==
    { n \in DOMAIN modLog :
        /\ modLog[n].ev = "insert" /\ modLog[n].path = path
        /\ n >= Max(InsertsBefore(path, i)) }

\* C23: once a render call compiled a module path and put it in the cache,
\* every render call for that path that starts afterwards neither reads the
\* module file nor compiles nor inserts, at any time: after its lookup it
\* holds, and when it ends it ends with, a module of the cache, namely one
\* the cache held at some time since the call started (the module of the
\* last insert of the path before the start, or of a later one).
C23_CompiledModuleReused ==
    \A j \in DOMAIN modLog :
        /\ modLog[j].ev = "start"
        /\ \E i \in 1..(j - 1) : modLog[i].ev = "insert" /\ modLog[i].path = modLog[j].path
        => LET b == modLog[j].call
           IN  /\ \A k \in DOMAIN modLog :
                      modLog[k].call = b => modLog[k].ev \notin {"read", "compile", "insert"}
               /\ b \in DOMAIN modCalls => modCalls[b].pc \in {"want_read", "store", "render"}
               /\ b \in DOMAIN modCalls /\ modCalls[b].pc = "want_read" =>
                      HeldModule(b) = NoneOpt
               /\ \/ b \in DOMAIN modCalls /\ modCalls[b].pc \in {"store", "render"}
                  \/ ModHas(b, "finish")
                  => \E n \in InsertsSince(modLog[j].path, j) :
                         HeldModule(b) = modLog[n].component

\* the first call compiled the path and inserted it; the second started
\* later, took the first's module from the cache and ended with it while the
\* first, past its insert, was still in flight
C23_Witness ==
    \E a, b \in Renders :
        /\ ModPath(a) = ModPath(b)
        /\ ModHas(a, "compile") /\ ModHas(a, "insert")
        /\ ModPos(a, "insert") < ModPos(b, "start")
        /\ ModHas(b, "finish")
        /\ modLog[ModPos(b, "finish")].component = Some(a)
        /\ a \in DOMAIN modCalls /\ modCalls[a].pc = "render"

\* C24 (as stated): a module path is compiled and inserted once only: the
\* log holds at most one insert for a path, and no compile of a path after
\* its insert.
C24_CompiledOnceAsStated ==
    \A n, m \in DOMAIN modLog :
        /\ n < m
        /\ modLog[n].ev = "insert"
        /\ modLog[m].path = modLog[n].path
        => modLog[m].ev \notin {"compile", "insert"}

\* the stores made so far: those of the calls that ended, by the event of
\* their end, and those of the calls in flight, by the call
StoresEnded == { n \in DOMAIN modLog : IsSome(modLog[n].store) }
StoresHeld == { c \in DOMAIN modCalls : IsSome(modCalls[c].store) }

\* C25: every render call that got its module makes a store of its own
\* after it got the module, keeps it until it ends and ends with it, and a
\* call that got no module makes none; no two calls, in flight together or
\* one after the other, have the same store (the stores made are as many as
\* the calls that have or had one), while they may have the same compiled
\* module; the cache that the calls share holds compiled modules only.
C25_StorePerCall ==
    /\ \A n \in DOMAIN modLog :
           /\ modLog[n].ev = "finish" =>
                  IsSome(modLog[n].component) <=> IsSome(modLog[n].store)
           /\ modLog[n].ev # "finish" => modLog[n].store = NoneOpt
    /\ \A c \in DOMAIN modCalls :
           /\ IsSome(modCalls[c].store) <=> modCalls[c].pc = "render"
           /\ IsSome(modCalls[c].store) => IsSome(modCalls[c].component)
    /\ Cardinality({ modLog[n].store : n \in StoresEnded }
                       \cup { modCalls[c].store : c \in StoresHeld })
           = Cardinality(StoresEnded) + Cardinality(StoresHeld)
    /\ \A n \in StoresEnded : modLog[n].call \notin DOMAIN modCalls
    /\ \A path \in ComponentPaths :
           IsSome(modCache[path]) =>
               \E n \in DOMAIN modLog :
                   modLog[n].ev = "compile" /\ modLog[n].ok /\ modLog[n].component = modCache[path]

\* two calls are in flight together on the same compiled module, each with
\* a store of its own
C25_Witness ==
    \E a, b \in DOMAIN modCalls :
        /\ a # b
        /\ modCalls[a].pc = "render" /\ modCalls[b].pc = "render"
        /\ IsSome(modCalls[a].component)
        /\ modCalls[a].component = modCalls[b].component
        /\ IsSome(modCalls[a].store) /\ IsSome(modCalls[b].store)
        /\ modCalls[a].store # modCalls[b].store

\* the guard of the provider's mutex is held by a call that is between the
\* acquisition and the end of the statement that took it, and the guards of
\* the invoker's lock likewise
LocksHeldInStatement ==
    /\ \A c \in DOMAIN provCalls :
           provLock = Some(c) <=> provCalls[c].pc \in {"lookup", "store"}
    /\ IsSome(provLock) => Unwrap(provLock) \in DOMAIN provCalls
    /\ \A c \in DOMAIN modCalls :
           /\ c \in modLock.readers <=> modCalls[c].pc = "lookup"
           /\ modLock.writer = Some(c) <=> modCalls[c].pc = "write"
    /\ modLock.readers \subseteq DOMAIN modCalls
    /\ IsSome(modLock.writer) => Unwrap(modLock.writer) \in DOMAIN modCalls

\* C26: with requests abandoned wherever they await, every entry of the
\* resolution cache is the path a successful resolution of its key gave, and
\* every entry of the module cache a module that a call for its path
\* compiled and inserted; an abandoned call is no longer in flight, it does
\* nothing after it was abandoned, it inserted nothing and it holds no lock;
\* and no call holds a lock where it awaits, every guard being held by a
\* call in flight within the statement that took it.
C26_AbandonLeavesCachesWhole ==
    /\ \A key \in CacheKeys :
           IsSome(provCache[key]) =>
               \E n \in DOMAIN provLog :
                   /\ provLog[n].ev = "remote" /\ provLog[n].ok
                   /\ provLog[n].key = key /\ provLog[n].path = provCache[key]
    /\ \A path \in ComponentPaths :
           IsSome(modCache[path]) =>
               \E n \in DOMAIN modLog :
                   /\ modLog[n].ev = "insert" /\ modLog[n].path = path
                   /\ modLog[n].component = modCache[path]
                   /\ modLog[n].call \in Renders
                   /\ modLog[n].component = Some(Compile("valid", modLog[n].call).value)
    /\ \A n \in DOMAIN provLog :
           provLog[n].ev = "abandon" =>
               /\ provLog[n].call \notin DOMAIN provCalls
               /\ provLock # Some(provLog[n].call)
               /\ \A m \in DOMAIN provLog :
                      provLog[m].call = provLog[n].call => m <= n /\ provLog[m].ev # "return"
    /\ \A n \in DOMAIN modLog :
           modLog[n].ev = "abandon" =>
               /\ modLog[n].call \notin DOMAIN modCalls
               /\ modLog[n].call \notin modLock.readers
               /\ modLock.writer # Some(modLog[n].call)
               /\ \A m \in DOMAIN modLog :
                      modLog[m].call = modLog[n].call =>
                          m <= n /\ modLog[m].ev \notin {"insert", "finish"}
    /\ LocksHeldInStatement
    /\ \A c \in DOMAIN provCalls : provCalls[c].pc \in ResolveAwaits => provLock # Some(c)
    /\ \A c \in DOMAIN modCalls :
           modCalls[c].pc \in RenderAwaits =>
               c \notin modLock.readers /\ modLock.writer # Some(c)

\* a resolve was abandoned with its path resolved, waiting for the lock of
\* its insert, and a render with its module compiled, waiting for the write
\* lock; neither cache has an entry and both locks are free
C26_Witness ==
    /\ \E n, m \in DOMAIN provLog :
           /\ provLog[n].ev = "abandon" /\ provLog[m].ev = "remote"
           /\ provLog[m].ok /\ provLog[m].call = provLog[n].call
    /\ \E n \in DOMAIN modLog : modLog[n].ev = "abandon" /\ IsSome(modLog[n].component)
    /\ \A key \in CacheKeys : provCache[key] = NoneOpt
    /\ \A path \in ComponentPaths : modCache[path] = NoneOpt
    /\ provLock = NoneOpt /\ modLock = RwLock({}, NoneOpt)

(***************************************************************************)
(* Vocabulary of the pack loading properties.                              *)
(***************************************************************************)
\* a provider operation was applied, and which; what it returned
LoadDone == IsSome(loadOut) /\ Unwrap(loadOut).op \in DOMAIN OpKind
LoadOp == Unwrap(loadOut).op
LoadResult == Unwrap(loadOut).result

\* the kind the operation asks for
Asked == OpKind[LoadOp]

\* the packs of a result, as a sequence: none on an error, the layout, the
\* optional pack if there is one, the features
PacksOf(op, result) ==
    IF ~result.ok THEN <<>>
    ELSE IF op = "load_layout" THEN <<result.value>>
    ELSE result.value

Returned == PacksOf(LoadOp, LoadResult)

\* the answers of the provider operations of the load, and what resolve
\* returned to each operation of the distributor provider
Answers == loadCall.results
Roots == loadCall.roots

\* resolve gave the operation a root
Resolved == Roots # <<>> /\ Roots[1].ok /\ IsSome(Roots[1].value)

\* every returned pack is of the variant asked for, built from a manifest
\* that declares the kind asked for
ReturnedAreAsked ==
    \A i \in DOMAIN Returned :
        /\ Returned[i].variant = Variants[Asked]
        /\ KindIs(Returned[i].manifest, Asked)

\* facts on the pack directories of a filesystem tenant root
AllReadable == \A i \in DOMAIN loadIn.packs : loadIn.packs[i].readable
Requested(i) == KindIs(loadIn.packs[i], Asked)
Broken(i) ==
    \/ ~loadIn.packs[i].readable
    \/ Requested(i) /\ ~loadIn.packs[i].parses

\* the operation gets as far as opening the manifest of directory i
Opened(i) ==
    \A j \in 1..(i - 1) :
        /\ loadIn.packs[j].readable
        /\ ~(Requested(j) /\ (LoadOp # "load_features" \/ ~loadIn.packs[j].parses))

\* the operation on the tenant root without the directories of other kinds
IsAsked(file) == KindIs(file, Asked)
WithoutOthers ==
    FsPackProvider_load(LoadOp, loadIn.root, SelectSeq(loadIn.packs, IsAsked))

\* the manifests of the packs of a result
ManifestsOf(result) ==
    [i \in DOMAIN PacksOf(LoadOp, result) |-> PacksOf(LoadOp, result)[i].manifest]

\* an operation fails or not, and returns the same manifests, whether the
\* directories of other kinds are there or not
OthersSkipped ==
    /\ LoadResult.ok = WithoutOthers.ok
    /\ ManifestsOf(LoadResult) = ManifestsOf(WithoutOthers)

(***************************************************************************)
(* Claims on pack loading.                                                 *)
(***************************************************************************)
\* C28: with the pack resolved, the remote provider returns a pack only
\* when the manifest declares the kind asked for, and then the variant of
\* that kind; a readable manifest of any other kind, of an unknown kind or
\* without kind gives None (no feature) without error, and for load_layout
\* the no-layout error.
C28_RemoteKindDispatch ==
    LoadDone /\ loadIn.provider = "distributor" /\ Resolved =>
        /\ ReturnedAreAsked
        /\ \A i \in DOMAIN Returned :
               /\ Returned[i].manifest = loadIn.packs[1]
               /\ Returned[i].root = Unwrap(Roots[1].value)
        /\ loadIn.packs[1].readable /\ ~Requested(1) =>
               IF LoadOp = "load_layout"
               THEN LoadResult = Fail("no layout pack configured")
               ELSE LoadResult = Ok(NoneOpt)

\* the auth pack was asked for and the manifest declares a feature pack
C28_Witness ==
    /\ LoadDone /\ loadIn.provider = "distributor" /\ Resolved
    /\ LoadOp = "load_auth"
    /\ loadIn.packs[1] = ManifestFile(TRUE, Some("gui-feature"), TRUE)
    /\ LoadResult = Ok(NoneOpt)

\* C29 (as stated): on a listable tenant root the filesystem provider
\* returns, when every manifest is readable, only packs of the kind asked
\* for, and directories of other kinds do not change whether it fails; and
\* it fails only when a manifest it opens is unreadable or does not parse
\* as the kind asked for.
C29_FsSkipsOtherKindsAsStated ==
    LoadDone /\ loadIn.provider = "fs" /\ loadIn.root # "unlistable" =>
        /\ AllReadable => ReturnedAreAsked /\ OthersSkipped
        /\ ~LoadResult.ok => \E i \in DOMAIN loadIn.packs : Opened(i) /\ Broken(i)

\* C29 (amended): the same, and a load fails exactly when the tenant root
\* cannot be listed, a manifest it opens is unreadable or does not parse as
\* the kind asked for, or, for load_layout, every manifest is readable and
\* none declares the layout kind.
C29_FsSkipsOtherKinds ==
    LoadDone /\ loadIn.provider = "fs" =>
        /\ AllReadable /\ loadIn.root # "unlistable" => ReturnedAreAsked /\ OthersSkipped
        /\ ~LoadResult.ok <=>
               \/ loadIn.root = "unlistable"
               \/ \E i \in DOMAIN loadIn.packs : Opened(i) /\ Broken(i)
               \/ /\ LoadOp = "load_layout"
                  /\ \A i \in DOMAIN loadIn.packs : loadIn.packs[i].readable /\ ~Requested(i)

\* the auth pack was asked for, the first directory is of an unknown kind
\* and the second is the auth pack, which is returned
C29_Witness ==
    /\ LoadDone /\ loadIn.provider = "fs" /\ LoadOp = "load_auth"
    /\ Len(loadIn.packs) = 2
    /\ loadIn.packs[1].kind = Some("gui-other")
    /\ LoadResult.ok /\ IsSome(LoadResult.value)
    /\ Unwrap(LoadResult.value).root = 2

\* C30: load_layout of either provider returns a pack of the Layout
\* variant or an error, and TenantGuiConfig::load never runs into its
\* unreachable!() arm: it fails with the provider's error or has the one
\* layout pack.
C30_LayoutOrError ==
    IsSome(loadOut) =>
        /\ LoadOp = "load_layout" /\ LoadResult.ok =>
               /\ LoadResult.value # NoneOpt
               /\ LoadResult.value.variant = "Layout"
        /\ LoadOp = "TenantGuiConfig::load" =>
               /\ LoadResult.err # "unreachable"
               /\ LoadResult.ok =>
                      /\ LoadResult.value.variant = "Layout"
                      /\ KindIs(LoadResult.value.manifest, "GuiLayout")
               /\ ~LoadResult.ok => LoadResult = Answers[1]

\* a tenant configuration was loaded from a root whose first directory is
\* no layout pack
C30_Witness ==
    /\ IsSome(loadOut) /\ LoadOp = "TenantGuiConfig::load"
    /\ loadIn.provider = "fs" /\ Len(loadIn.packs) = 2
    /\ loadIn.packs[1].kind = Some("gui-auth")
    /\ LoadResult.ok /\ LoadResult.value.root = 2

(***************************************************************************)
(* Following a redirect.                                                    *)
(***************************************************************************)
\* the request was answered with a Redirect
Redirected == Handled /\ Unwrap(decision).kind = "Redirect"

\* what an unauthenticated client gets when it follows the Redirect: the
\* decision of routing::resolve_route for the target path with no session
\* token, every document being readable
FollowRedirect ==
    resolve_route(cfg, Unwrap(decision).target, NoneOpt, "absent", TRUE).decision

(***************************************************************************)
(* C36 (as stated): for every tenant configuration, resolving the path     *)
(* returned in a Redirect with no session yields Serve, never another      *)
(* Redirect.                                                                *)
(***************************************************************************)
C36_RedirectTargetServableAsStated ==
    Redirected => FollowRedirect.kind = "Serve"

(***************************************************************************)
(* Session validation and the authentication requirement.                  *)
(***************************************************************************)
\* SessionManager::validate was the first collaborator called for the request
ValidatedFirst == io # <<>> /\ io[1].call = "validate"

\* SessionManager::validate returned an error
ValidateFailed == \E k \in DOMAIN io : io[k].call = "validate" /\ ~io[k].ok

\* the request resolved to a route that does not require authentication
OpenRoute == Handled /\ IsSome(resolved) /\ ~Unwrap(resolved).authenticated

(***************************************************************************)
(* C37 (as stated): session validation runs on every request before the    *)
(* route's authentication requirement is consulted: when the session       *)
(* manager returns an error, resolve_route returns that error for every    *)
(* path, also for a route that does not require authentication, and reads  *)
(* no document; when validation succeeds, a route that does not require    *)
(* authentication is served with or without a session.                     *)
(***************************************************************************)
C37_ValidationFirstAsStated ==
    Handled =>
        /\ ValidatedFirst
        /\ ValidateFailed => (Unwrap(decision) = Err("session") /\ DocReads = {})
        /\ (ValidateOk /\ OpenRoute) => Unwrap(decision).kind = "Serve"

(***************************************************************************)
(* C37 (amended): session validation runs on every request before the      *)
(* route's authentication requirement is consulted: when the session       *)
(* manager returns an error, resolve_route returns that error for every    *)
(* path, also for a route that does not require authentication, and reads  *)
(* no document.  When validation succeeds, a route that does not require   *)
(* authentication is never redirected: with or without a session its       *)
(* document is read, and the result is Serve with that document and the    *)
(* validated session (if any) when the read succeeds, the read error when  *)
(* it fails.                                                                *)
(***************************************************************************)
C37_ValidationFirst ==
    Handled =>
        /\ ValidatedFirst
        /\ ValidateFailed => (Unwrap(decision) = Err("session") /\ DocReads = {})
        /\ (ValidateOk /\ OpenRoute) =>
              /\ DocReads # {}
              /\ IF ReadFailed
                 THEN Unwrap(decision) = Err("read")
                 ELSE Unwrap(decision) =
                        Serve(FileContents(Unwrap(resolved).html_path),
                              Unwrap(resolved).fragments, session)

\* a request for a route that does not require authentication, refused
\* because the session manager returned an error
C37_Witness ==
    /\ OpenRoute
    /\ ValidateFailed
    /\ Unwrap(decision).kind = "Err"

(***************************************************************************)
(* Failed resolutions and the resolution cache.                            *)
(***************************************************************************)
\* the call returned without a path: an error, or Ok(None) for a kind that
\* has no pack reference
ReturnedNoPath(c) == HasReturned(c) /\ ~ReturnedPath(c)

\* the positions before position j at which a path was returned for the key
\* with no clear_cache between the return and j
PathsKept(key, j) ==
    { n \in DOMAIN provLog :
        /\ n < j
        /\ provLog[n].ev = "return" /\ provLog[n].key = key
        /\ provLog[n].ok /\ IsSome(provLog[n].path)
        /\ ~ClearedBetween(n, j) }

\* what the log says the cache holds under the key: the path of the latest
\* resolution of that key that returned one since the last clear_cache
CacheByLog(key) ==
    LET kept == PathsKept(key, Len(provLog) + 1)
    IN  IF kept = {} THEN NoneOpt ELSE provLog[Max(kept)].path

\* where in the log a call made its remote resolution
RemotePos(c) == CHOOSE n \in DOMAIN provLog : provLog[n].ev = "remote" /\ provLog[n].call = c

\* the key is of a kind that has a pack reference
Configured(key) == \E t \in Tenants, k \in ConfiguredKinds : key = CacheKey(t, k)

(***************************************************************************)
(* C38 (as stated): when resolve returned without a path (an error, or a   *)
(* kind that is not configured), the next resolve of the same (tenant,     *)
(* kind) contacts the remote resolver again.  (Stated at the return of     *)
(* that next resolve, the last event of the log.)                          *)
(***************************************************************************)
C38_FailureNotCachedAsStated ==
    provLog # <<>> /\ LastEvent.ev = "return" =>
        LET b == LastEvent.call
        IN  \A a \in Calls \ {b} :
                /\ ReturnedNoPath(a)
                /\ KeyOf(a) = KeyOf(b)
                /\ ReturnPos(a) < StartPos(b)
                /\ \A c \in Calls \ {a, b} :
                       KeyOf(c) = KeyOf(a) => StartPos(c) < StartPos(a)
                => RemoteCalls(b) >= 1

(***************************************************************************)
(* C38 (amended): a resolve that returns without a path leaves the cache   *)
(* as it is: at every moment the cache holds, under each key, the path of  *)
(* the latest resolution of that (tenant, kind) that returned a path since *)
(* the last clear_cache, and nothing when there is none.  A resolve of a   *)
(* configured kind contacts the remote resolver exactly when the cache     *)
(* holds no path for its key at its lookup (when it returns from the cache *)
(* the cache holds a path then, and when it made a remote call the cache   *)
(* held none at some moment between its start and that call), so a failed  *)
(* resolution is followed by a new remote call unless another resolution   *)
(* of the key stored a path meanwhile; a resolve of a kind that is not     *)
(* configured returns no path and never contacts the remote resolver.      *)
(***************************************************************************)
C38_FailureNotCached ==
    /\ \A key \in CacheKeys : provCache[key] = CacheByLog(key)
    /\ provLog # <<>> /\ LastEvent.ev = "return" =>
        LET b == LastEvent.call
        IN  /\ RemoteCalls(b) <= 1
            /\ IF Configured(KeyOf(b))
               THEN /\ RemoteCalls(b) = 0 => PathsKept(KeyOf(b), Len(provLog)) # {}
                    /\ RemoteCalls(b) = 1 =>
                           \E j \in (StartPos(b) + 1)..RemotePos(b) :
                               PathsKept(KeyOf(b), j) = {}
               ELSE RemoteCalls(b) = 0 /\ ReturnedNoPath(b)
            /\ ReturnedNoPath(b) /\ Configured(KeyOf(b)) =>
                  /\ ~LastEvent.ok
                  /\ provLog[Len(provLog) - 1].ev = "remote"
                  /\ ~provLog[Len(provLog) - 1].ok

\* a resolution failed, leaving no entry, and the next resolution of the
\* same key went to the remote resolver again and got a path, now cached
C38_Witness ==
    \E a, b \in Calls :
        /\ ReturnedNoPath(a) /\ RemoteCalls(a) = 1
        /\ ReturnedPath(b) /\ RemoteCalls(b) = 1
        /\ KeyOf(a) = KeyOf(b)
        /\ ReturnPos(a) < StartPos(b)
        /\ provCache[KeyOf(b)] = provLog[ReturnPos(b)].path
        /\ LastEvent.call = b

(***************************************************************************)
(* The production renderer.                                                *)
(***************************************************************************)
\* the renderer main.rs builds has returned: CompositeFragmentRenderer
\* with_wit over the file renderer
ProductionRendered == Rendered /\ rendBy = "composite" /\ rendIn.wit

\* a fragment target of a page, as inject_fragments receives it
SampleTarget ==
    FragmentTarget(FragmentBinding(BindingIds[1], <<"#", "slot">>, "world", "menu"),
                   AssetsRoot)

\* what inject_fragments keeps for the target when the renderer returned
\* what it did
KeptForSample == RenderedFor(SampleTarget, Unwrap(rendOut))

(***************************************************************************)
(* C40: with the production renderer render_fragment never returns a       *)
(* generic error: it returns markup, no opinion or missing-secrets, so     *)
(* inject_fragments never keeps the `fragment render failed` placeholder   *)
(* for it.  A module failure without the marker is replaced by the static  *)
(* file when there is one and is no opinion (the binding is skipped)       *)
(* otherwise; an unreadable file is no opinion too.                        *)
(***************************************************************************)
C40_NoGenericError ==
    ProductionRendered =>
        /\ Unwrap(rendOut).ok \/ Unwrap(rendOut) = MissingSecretsError
        /\ Unwrap(rendOut) = MissingSecretsError <=> InvokerMissingSecrets
        /\ InvokerOtherError =>
              /\ FileRead
              /\ Unwrap(rendOut) = IF IsSome(rendIn.file)
                                   THEN MarkupResult(Unwrap(rendIn.file))
                                   ELSE NoOpinion
        /\ \A n \in DOMAIN KeptForSample :
              KeptForSample[n].html #
                  ErrorPlaceholder(SampleTarget.binding.id, "fragment render failed")
        /\ (InvokerOtherError /\ ~IsSome(rendIn.file)) => KeptForSample = <<>>

\* the module failed without the marker and there is no static file: the
\* production renderer gave no opinion and the binding is skipped
C40_Witness ==
    /\ ProductionRendered
    /\ InvokerOtherError /\ rendIn.invoked.err # <<>>
    /\ ~IsSome(rendIn.file)
    /\ Unwrap(rendOut) = NoOpinion
    /\ KeptForSample = <<>>

(***************************************************************************)
(* The whole of TenantGuiConfig::load.                                     *)
(***************************************************************************)
\* TenantGuiConfig::load has returned
TenantLoaded == IsSome(loadOut) /\ Unwrap(loadOut).op = "TenantGuiConfig::load"

\* the provider operations it called, and what it returned
LoadCalls == Unwrap(loadOut).calls
LoadConfig == Unwrap(loadOut).config

\* the answers that are errors
FailingOps == { k \in DOMAIN Answers : ~Answers[k].ok }

\* what the filesystem provider answers to an operation on the tenant root
Answer(op) == FsPackProvider_load(op, loadIn.root, loadIn.packs)

\* the requirements of the packs of the configuration, in the order layout,
\* auth, skin, telemetry, features
ConfigRequirements(config) ==
    MergeRequirements(config.layout, config.auth, config.skin, config.telemetry,
                      config.features)

(***************************************************************************)
(* C31: TenantGuiConfig::load fails fast.  load_layout is the first        *)
(* provider call, and when it fails load returns that error and calls no   *)
(* other operation; the calls follow the fixed order and stop at the first *)
(* operation that fails, whose error load returns.  load returns a         *)
(* configuration only when all five operations succeeded, and then every   *)
(* part of it is what the provider returned, with the requirements of its  *)
(* packs deduplicated: never a partial one.                                *)
(***************************************************************************)
C31_LoadFailsFast ==
    TenantLoaded =>
        /\ LoadCalls # <<>> /\ LoadCalls[1] = "load_layout"
        /\ LoadCalls = SubSeq(LoadOrder, 1, Len(LoadCalls))
        /\ Len(Answers) = Len(LoadCalls)
        /\ loadIn.provider = "fs" =>
              \A k \in DOMAIN Answers : Answers[k] = Answer(LoadOrder[k])
        /\ loadIn.provider = "given" =>
              \A k \in DOMAIN Answers : Answers[k] = loadIn.answers[LoadOrder[k]]
        /\ ~Answers[1].ok =>
              LoadCalls = <<"load_layout">> /\ LoadConfig = Answers[1]
        /\ FailingOps # {} =>
              /\ FailingOps = {Len(LoadCalls)}
              /\ LoadConfig = Answers[Len(LoadCalls)]
              /\ ~LoadConfig.ok
        /\ FailingOps = {} =>
              /\ LoadCalls = LoadOrder
              /\ LoadConfig.ok
              /\ LoadConfig.value.layout = Answers[1].value
              /\ LoadConfig.value.auth = Answers[2].value
              /\ LoadConfig.value.skin = Answers[3].value
              /\ LoadConfig.value.telemetry = Answers[4].value
              /\ LoadConfig.value.features = Answers[5].value
              /\ LoadConfig.value.secret_requirements
                     = dedup_requirements(ConfigRequirements(LoadConfig.value))

\* the layout loaded, and load_auth failed on the unreadable manifest of
\* another pack: load stopped there with that error
C31_Witness ==
    /\ TenantLoaded
    /\ Answers[1].ok
    /\ LoadCalls = <<"load_layout", "load_auth">>
    /\ ~LoadConfig.ok /\ LoadConfig.err = "manifest"

(***************************************************************************)
(* Deduplication of the secret requirements.                               *)
(***************************************************************************)
\* dedup_requirements has been applied to the collected requirements
Deduped == dedupOut # <<>>

\* its output
DedupResult == dedupOut[1]

\* the key strings of a list of requirements
KeysOf(requirements) == { requirement_key(requirements[i]) : i \in DOMAIN requirements }

\* the first position of the input whose requirement has the key string
FirstWith(key) == Min({ i \in DOMAIN dedupIn : requirement_key(dedupIn[i]) = key })

\* two requirements with the same scope and key, whatever else they hold
SameScopeAndKey(a, b) == a.scope = b.scope /\ a.key = b.key

(***************************************************************************)
(* C32: the output of dedup_requirements holds no two requirements with    *)
(* the same key string and one requirement for every key string of the     *)
(* input: the first occurrence of each, in the order of these first        *)
(* occurrences.  Requirements with the same scope and key that differ in   *)
(* another field are duplicates, so at most one of them is kept.           *)
(* Applying dedup_requirements to its output gives the output again.       *)
(***************************************************************************)
C32_DedupByKey ==
    Deduped =>
        /\ \A i, j \in DOMAIN DedupResult :
               i # j => /\ requirement_key(DedupResult[i]) # requirement_key(DedupResult[j])
                        /\ ~SameScopeAndKey(DedupResult[i], DedupResult[j])
        /\ KeysOf(DedupResult) = KeysOf(dedupIn)
        /\ \A j \in DOMAIN DedupResult :
               DedupResult[j] = dedupIn[FirstWith(requirement_key(DedupResult[j]))]
        /\ \A i, j \in DOMAIN DedupResult :
               i < j => FirstWith(requirement_key(DedupResult[i]))
                            < FirstWith(requirement_key(DedupResult[j]))
        /\ Len(dedupOut) = 2 => dedupOut[2] = dedupOut[1]

\* the case of the crate's test followed by another requirement: a
\* requirement, the same with a description, and one with another key give
\* the first and the third, and a second application changes nothing
C32_Witness ==
    /\ Len(dedupOut) = 2
    /\ Len(dedupIn) = 3
    /\ dedupIn[1].scope = Some(SecretScope(<<"d", "e", "v">>, <<"t">>, NoneOpt))
    /\ dedupIn[2] = [dedupIn[1] EXCEPT !.description = "described"]
    /\ dedupIn[2] # dedupIn[1]
    /\ dedupIn[3].key # dedupIn[1].key
    /\ DedupResult = <<dedupIn[1], dedupIn[3]>>

(***************************************************************************)
(* Vocabulary of the worker properties.                                    *)
(***************************************************************************)
\* invoke_worker has been called, and has returned
WorkerInvoked == workCall.pc # "idle"
WorkerReturned == IsSome(workOut)
WorkerResult == Unwrap(workOut)

\* the positions of the log at which a request was sent, a sleep was made
RequestsSent == { n \in DOMAIN workLog : workLog[n].ev = "request" }
Sleeps == { n \in DOMAIN workLog : workLog[n].ev = "sleep" }

\* the gateway answered with a success status
SuccessAnswer(resp) == resp.sent /\ resp.success

\* the gateway answered with another status and a body that lists missing
\* secrets
MissingSecretsAnswer(resp) ==
    /\ resp.sent /\ ~resp.success
    /\ resp.body = "json"
    /\ Unwrap(resp.json).missing_secrets # <<>>

\* the attempt failed: no answer, or a non-success status without missing
\* secrets
FailedAnswer(resp) == ~SuccessAnswer(resp) /\ ~MissingSecretsAnswer(resp)

(***************************************************************************)
(* C33: with the stub backend invoke_worker succeeds for every tenant      *)
(* context, worker id and payload, without any request to a gateway, and   *)
(* its JSON response holds exactly one message, whose payload is the       *)
(* request's payload, and the request's worker id and tenant.              *)
(***************************************************************************)
C33_StubEchoes ==
    (workIn.backend = "stub" /\ WorkerInvoked) =>
        /\ WorkerReturned
        /\ WorkerResult.ok
        /\ Len(WorkerResult.value.messages) = 1
        /\ WorkerResult.value.messages[1].payload = workIn.payload
        /\ WorkerResult.value.messages[1].kind = "stub"
        /\ WorkerResult.value.worker_id = workIn.worker_id
        /\ WorkerResult.value.tenant.tenant_id = workIn.tenant_ctx.tenant_id
        /\ WorkerResult.value.tenant.env = workIn.tenant_ctx.env
        /\ workLog = <<>>

\* the call of the crate's test: payload {"x":1} for worker.echo
C33_Witness ==
    /\ workIn.backend = "stub"
    /\ WorkerReturned
    /\ workIn.payload = "{\"x\":1}"
    /\ workIn.worker_id = "worker.echo"
    /\ WorkerResult.value.messages = <<[kind |-> "stub", payload |-> "{\"x\":1}"]>>

(***************************************************************************)
(* C34: HttpWorkerBackend::invoke sends at most retries + 1 requests and   *)
(* has returned once the last of them is answered.  A success answer is    *)
(* the last request, and the call returns what that answer decodes to.     *)
(* When retries + 1 attempts have failed the call returns the error of the *)
(* last attempt.  After failed attempt k it sleeps backoff_base * k when   *)
(* k <= retries, so that every request but the first follows such a sleep, *)
(* and it never sleeps after the final attempt.                            *)
(***************************************************************************)
C34_RetriesBounded ==
    workIn.backend = "http" =>
        /\ Cardinality(RequestsSent) <= workIn.retries + 1
        /\ Cardinality(RequestsSent) = workIn.retries + 1 => WorkerReturned
        /\ \A n \in RequestsSent :
              /\ workLog[n].attempt = Cardinality({ m \in RequestsSent : m <= n })
              /\ n > 1 => /\ workLog[n - 1].ev = "sleep"
                          /\ FailedAnswer(workLog[n - 2].resp)
              /\ SuccessAnswer(workLog[n].resp) =>
                    /\ n = Len(workLog)
                    /\ WorkerReturned
                    /\ WorkerResult.ok <=> workLog[n].resp.body = "json"
              /\ (FailedAnswer(workLog[n].resp) /\ workLog[n].attempt = workIn.retries + 1) =>
                    /\ n = Len(workLog)
                    /\ WorkerReturned
                    /\ WorkerResult =
                         Fail(WorkerError(IF workLog[n].resp.sent THEN "status"
                                                                  ELSE "request failed",
                                          workIn.retries + 1))
        /\ \A n \in Sleeps :
              /\ workLog[n - 1].ev = "request"
              /\ FailedAnswer(workLog[n - 1].resp)
              /\ workLog[n].attempt = workLog[n - 1].attempt
              /\ workLog[n].attempt <= workIn.retries
              /\ workLog[n].delay = workIn.backoff_base * workLog[n].attempt
        /\ WorkerReturned => (workLog = <<>> \/ workLog[Len(workLog)].ev = "request")
        /\ (~WorkerReturned /\ workLog # <<>> /\ workLog[Len(workLog)].ev = "request") =>
              workCall.pc = "sleep"

\* two retries configured, three attempts failed, with sleeps of 200 and
\* 400 ms between them and none after the third: the error of attempt 3
C34_Witness ==
    /\ workIn.backend = "http" /\ workIn.retries = 2 /\ workIn.backoff_base = 200
    /\ WorkerReturned
    /\ Len(workLog) = 5
    /\ workLog[2] = SleepEvent(1, 200)
    /\ workLog[4] = SleepEvent(2, 400)
    /\ ~workLog[1].resp.sent
    /\ WorkerResult = Fail(WorkerError("status", 3))

(***************************************************************************)
(* C35: a non-success gateway answer whose body lists missing secrets ends *)
(* HttpWorkerBackend::invoke at once: it is the last request, no sleep     *)
(* follows, and invoke_worker returns MissingSecretsError with the listed  *)
(* secrets, the body's pack_hint or else its pack_ref, and its message.    *)
(* invoke_worker returns every error of the backend as the backend made    *)
(* it, so that a MissingSecretsError can be downcast by the caller and no  *)
(* other error can.                                                         *)
(***************************************************************************)
C35_MissingSecretsEndsCall ==
    workIn.backend = "http" =>
        /\ \A n \in RequestsSent :
              MissingSecretsAnswer(workLog[n].resp) =>
                  LET body == Unwrap(workLog[n].resp.json)
                  IN  /\ n = Len(workLog)
                      /\ WorkerReturned
                      /\ WorkerResult =
                           Fail(WorkerMissingSecrets(
                                  body.missing_secrets,
                                  IF IsSome(body.pack_hint) THEN body.pack_hint
                                                            ELSE body.pack_ref,
                                  body.message))
                      /\ Downcast(WorkerResult.err) = Some(WorkerResult.err)
        /\ (WorkerReturned /\ ~WorkerResult.ok) =>
              /\ IsSome(Downcast(WorkerResult.err)) <=>
                    (workLog # <<>> /\ MissingSecretsAnswer(workLog[Len(workLog)].resp))
              /\ ~IsSome(Downcast(WorkerResult.err)) =>
                    WorkerResult.err.what \in {"url", "decode", "status", "request failed"}

\* the first attempt failed, the second was answered with missing secrets
\* and a pack_ref only, although a retry was left: the call ended there
\* with the pack_ref as hint
C35_Witness ==
    /\ workIn.backend = "http" /\ workIn.retries = 2
    /\ WorkerReturned
    /\ Len(workLog) = 3
    /\ MissingSecretsAnswer(workLog[3].resp)
    /\ WorkerResult.err.type = "MissingSecretsError"
    /\ WorkerResult.err.pack_hint = Some("ref")

(***************************************************************************)
(* The lock of the compiled-module cache.                                  *)
(***************************************************************************)
\* the call is past its cache miss: compiling, waiting for the write lock
\* or holding it
PastMiss(call) ==
    call \in DOMAIN modCalls /\ modCalls[call].pc \in {"read", "want_write", "write"}

\* a call past its cache miss holds no read guard; the lock is held either
\* by readers or by one writer; a read guard is held only during the lookup
\* and the write guard only during the insert
ReadReleasedBeforeWrite ==
    /\ \A call \in DOMAIN modCalls : PastMiss(call) => call \notin modLock.readers
    /\ modLock.writer # NoneOpt => modLock.readers = {}
    /\ \A call \in modLock.readers : call \in DOMAIN modCalls /\ modCalls[call].pc = "lookup"
    /\ modLock.writer # NoneOpt =>
           /\ Unwrap(modLock.writer) \in DOMAIN modCalls
           /\ modCalls[Unwrap(modLock.writer)].pc = "write"

\* the call waits for the write lock to insert the module of the path
WaitsToInsert(call, path) ==
    /\ call \in DOMAIN modCalls
    /\ modCalls[call].pc = "want_write"
    /\ modCalls[call].path = path

\* the call waits for a lock
WaitsForLock(call) ==
    call \in DOMAIN modCalls /\ modCalls[call].pc \in {"want_read", "want_write"}

(***************************************************************************)
(* C39: on a cache miss instantiate has released the read lock before it   *)
(* asks for the write lock, so the lock never waits for its own holder:    *)
(* when the runtime goes on running calls that can go on, whenever a call  *)
(* waits for the write lock with the module of a path, the path gets into  *)
(* the cache, and every one of MaxRenders calls of render, alone or with   *)
(* the others, is again and again past its lock acquisitions, and ends.    *)
(***************************************************************************)
C39_LockNeverBlocksHolder ==
    /\ []ReadReleasedBeforeWrite
    /\ \A path \in ComponentPaths :
          (\E call \in 1..MaxRenders : WaitsToInsert(call, path)) ~> IsSome(modCache[path])
    /\ \A call \in 1..MaxRenders :
          /\ []<>(~WaitsForLock(call))
          /\ []<>(call \notin DOMAIN modCalls)

\* two first-time renders of one path ran together: both missed, both
\* compiled, and both got the write lock in turn and inserted; the second
\* has just taken the write lock while the first, past its insert, is still
\* in flight with its store
C39_Witness ==
    /\ \E a, b \in DOMAIN modCalls :
          /\ a # b
          /\ modCalls[a].path = modCalls[b].path
          /\ modCalls[a].pc = "render" /\ modCalls[a].component = Some(a)
          /\ modCalls[b].pc = "write" /\ modCalls[b].component = Some(b)
          /\ modLock = RwLock({}, Some(b))
          /\ modCache[modCalls[a].path] = Some(a)

====
